---- MODULE Spec2Model ----
(***************************************************************************)
(* Hashed-timelock atomic swap: the AtomicSwap escrow contract (account    *)
(* based leg) and the backend registry that simulates the UTXO leg.        *)
(***************************************************************************)
EXTENDS Integers, FiniteSets, Sequences, TLC

(***************************************************************************)
(* Bounds of the model.                                                    *)
(***************************************************************************)
MaxTime == 2
\* The count of accepted registrations per swap id stops here.
MaxLegs == 3
\* The largest number of hours typed into the timelock field of the form.
MaxHours == 2

(***************************************************************************)
(* Values.                                                                 *)
(***************************************************************************)
ZeroAddress == "0x0"
Users == {"alice", "bob"}
Addresses == Users \cup {ZeroAddress}
ContractAddress == "AtomicSwap"
Holders == Users \cup {ContractAddress}
\* address(0) names ETH in the token field; "TOK" is an ERC20 token whose
\* transfer and transferFrom revert on failure.
ERC20Token == "TOK"
Tokens == {ZeroAddress, ERC20Token}
SwapIds == {"id1", "id2"}
Secrets == {1, 2}
ZeroHash == 0
\* sha256(abi.encodePacked(_secret)): an injective digest that is never the
\* zero word and never its own argument.
sha256(b) == 2 * b + 1
\* The digests offered to initiateSwap: the zero word and the digest of
\* secret 1; secret 2 is a secret whose digest is locked nowhere.
HashInputs == {ZeroHash, sha256(1)}
Times == 0..MaxTime
Amounts == {0, 1}
\* What each user holds of each asset at the start.
InitialFunds == [h \in Holders |-> IF h = ContractAddress THEN 0 ELSE 1]

VARIABLES swaps, balances, now, revealed, result, activeSwaps, response, frame, form, fusionSwaps, legs, listing, utxo, utxoLeg

vars == <<swaps, balances, now, revealed, result, activeSwaps, response, frame, form, fusionSwaps, legs, listing, utxo, utxoLeg>>
backendVars == <<activeSwaps, response>>
\* The contract's storage, ledger and call state.
contractVars == <<swaps, balances, revealed, result, frame>>
\* The frontend form, the intent-routing extension's swaps and, as history,
\* how many initiate requests the registry accepted for each swap id.
coordVars == <<form, fusionSwaps, legs>>

\* The value of an unset entry of mapping(bytes32 => Swap).
Swap == [initiator |-> ZeroAddress, participant |-> ZeroAddress,
         token |-> ZeroAddress, amount |-> 0, hashedSecret |-> ZeroHash,
         timelock |-> 0, withdrawn |-> FALSE, refunded |-> FALSE,
         exists |-> FALSE]

Done(op, status) == [op |-> op, status |-> status]

\* As history, which of POST /withdraw and POST /refund the backend answered
\* with success for a swap id since the id was last registered.
NoSettlement == [withdrawn |-> FALSE, refunded |-> FALSE]

\* A string of hex digits: how many bytes the digits spell, which bytes,
\* and whether "0x" precedes them.
HexN(prefixed, len, bytes) ==
    [defined |-> TRUE, hex |-> TRUE, prefixed |-> prefixed, bytes |-> bytes, len |-> len]
\* A hex string as a request carries it: 64 hex digits, the bytes they
\* spell and whether "0x" precedes them.
Hex(prefixed, bytes) == HexN(prefixed, 32, bytes)
\* A string that is not hex digits.
Malformed ==
    [defined |-> TRUE, hex |-> FALSE, prefixed |-> FALSE, bytes |-> 0, len |-> 0]
\* A request field that was left out.
Undefined ==
    [defined |-> FALSE, hex |-> FALSE, prefixed |-> FALSE, bytes |-> 0, len |-> 0]
\* A Buffer: how many bytes it holds and, for 32 bytes, which.
Bytes(len, value) == [len |-> len, value |-> value]
EmptyBuffer == Bytes(0, 0)
\* The redeem script of an entry that has none.
NoScript ==
    [hash |-> EmptyBuffer, timelock |-> 0, recipientPubKey |-> "undefined",
     senderPubKey |-> "undefined"]
\* An address that was not derived: no version byte, no script.
NoAddress == [version |-> 0, script |-> <<>>]
\* What activeSwaps.get answers for a key the Map does not hold.
NoSwap ==
    [type |-> "undefined", hashedSecret |-> Undefined, timelock |-> 0,
     btcSenderPubKey |-> "undefined", btcRecipientPubKey |-> "undefined",
     btcScript |-> NoScript, status |-> "undefined",
     withdrawnSecret |-> Undefined, secret |-> Undefined,
     completionTxHash |-> "undefined", completedAt |-> -1, refundedAt |-> -1,
     dogeSwapAddress |-> NoAddress, dogeScript |-> <<>>]

\* What GET /api/swaps holds for a swap it has not pushed to its list, and
\* for one it has: the status pushed, the record getSwap answered and whether
\* the call answered at all.
NotListed ==
    [listed |-> FALSE, status |-> "undefined", blockchainSwap |-> Swap, answered |-> FALSE]
Listed(status, blockchainSwap, answered) ==
    [listed |-> TRUE, status |-> status, blockchainSwap |-> blockchainSwap, answered |-> answered]
\* GET /api/swaps between requests: no iteration in progress, nothing listed.
NoListing ==
    [phase |-> "idle", id |-> "", updatedSwap |-> NoSwap, swaps |-> [id \in SwapIds |-> NotListed]]

\* A transaction: inputs with the value they spend, their sequence number
\* and unlocking script, outputs, locktime, and the secret field the
\* Dogecoin placeholder objects carry.
NoTx == [ins |-> <<>>, outs |-> <<>>, locktime |-> 0, type |-> "none", secret |-> Undefined]
\* The arguments of a call of a UTXO library.
NoArgs ==
    [hashedSecret |-> Undefined, timelock |-> 0, recipientPubKey |-> Undefined,
     senderPubKey |-> Undefined, secret |-> Undefined, amount |-> 0,
     utxos |-> <<>>, feeRate |-> 0, privKey |-> 0]
\* No call of a UTXO library made yet.  A call leaves its arguments, what it
\* returned (a script, a transaction, a secret string, a boolean) or that it
\* threw.
NoCall ==
    [op |-> "none", chain |-> "none", args |-> NoArgs, returned |-> "nothing",
     error |-> "", script |-> <<>>, tx |-> NoTx, secret |-> Undefined, verified |-> FALSE,
     generator |-> "none"]

\* An HTTP answer: the handler, the status code, the error string, the swap
\* id of the request it answers and, for a status query, the status reported.
ReplyFor(op, code, error, swapId, data) ==
    [op |-> op, code |-> code, error |-> error, swapId |-> swapId, data |-> data]
Reply(op, code, error) == ReplyFor(op, code, error, "", "")

\* useState of SwapInterface: the form before anything is entered.  The
\* timelock field counts hours.
DefaultTimelock == 1
NoForm ==
    [isAcceptingSwap |-> FALSE, swapDirection |-> "eth-to-btc",
     useCustomHashedSecret |-> FALSE, customHashedSecret |-> Undefined,
     timelock |-> DefaultTimelock, acceptedSwap |-> NoSwap,
     swapResult |-> "none"]

\* The swaps of the intent-routing extension; a key its Map does not hold.
FusionIds == {"fusion_1"}
NoFusionSwap ==
    [status |-> "undefined", hashedSecret |-> Undefined, timelock |-> 0,
     fusionStatus |-> "undefined", completedAt |-> -1]

\* The call of the contract that is waiting for its transfer to return: the
\* ReentrancyGuard status, the call, the address the transfer runs code of,
\* and the storage and balances a revert of the call goes back to.
NoFrame ==
    [entered |-> FALSE, op |-> "none", swapId |-> "none", secret |-> 0,
     callee |-> ZeroAddress, swaps |-> [id \in SwapIds |-> Swap],
     balances |-> [t \in Tokens |-> InitialFunds]]

\* modifier nonReentrant of ReentrancyGuard.
nonReentrant ==
    IF frame.entered THEN "ReentrancyGuard: reentrant call" ELSE ""

\* Moving amt of asset tok from one holder to another.
transfer(bal, tok, from, to, amt) ==
    IF from = to THEN bal
    ELSE [bal EXCEPT ![tok][from] = @ - amt, ![tok][to] = @ + amt]

Init ==
    /\ swaps = [id \in SwapIds |-> Swap]
    /\ balances = [t \in Tokens |-> InitialFunds]
    /\ now = 0
    /\ revealed = {}
    /\ result = Done("none", "none")
    /\ activeSwaps = [id \in SwapIds |-> NoSwap]
    /\ response = Reply("none", 0, "")
    /\ frame = NoFrame
    /\ form = NoForm
    /\ fusionSwaps = [id \in FusionIds |-> NoFusionSwap]
    /\ legs = [id \in SwapIds |-> 0]
    /\ listing = NoListing
    /\ utxo = NoCall
    /\ utxoLeg = [id \in SwapIds |-> NoSettlement]

\* A record that is neither withdrawn nor refunded.
Open(id) ==
    swaps[id].exists /\ ~swaps[id].withdrawn /\ ~swaps[id].refunded

\* initiateSwap without require(!swaps[_swapId].exists).
initiateSwapRevert_NoExistsCheck(sender, value, _swapId, _participant, _token, _amount, _hashedSecret, _timelock) ==
    IF _participant = ZeroAddress THEN "Invalid participant"
    ELSE IF ~(_amount > 0) THEN "Amount must be greater than 0"
    ELSE IF ~(_timelock > now) THEN "Timelock must be in the future"
    ELSE IF _hashedSecret = ZeroHash THEN "Invalid hashed secret"
    ELSE IF _token = ZeroAddress /\ value # _amount THEN "Incorrect ETH amount"
    ELSE IF _token # ZeroAddress /\ value # 0
         THEN "ETH not needed for token swap"
    ELSE IF _token # ZeroAddress /\ balances[_token][sender] < _amount
         THEN "ERC20 transferFrom reverted"
    ELSE ""

\* initiateSwap that takes the id of a settled record for unused.
initiateSwapRevert_ReopenSettled(sender, value, _swapId, _participant, _token, _amount, _hashedSecret, _timelock) ==
    IF Open(_swapId) THEN "Swap already exists"
    ELSE initiateSwapRevert_NoExistsCheck(sender, value, _swapId, _participant,
                                          _token, _amount, _hashedSecret,
                                          _timelock)

\* initiateSwap with require(_timelock >= block.timestamp).
initiateSwapRevert_TimelockNow(sender, value, _swapId, _participant, _token, _amount, _hashedSecret, _timelock) ==
    IF swaps[_swapId].exists THEN "Swap already exists"
    ELSE IF _participant = ZeroAddress THEN "Invalid participant"
    ELSE IF ~(_amount > 0) THEN "Amount must be greater than 0"
    ELSE IF ~(_timelock >= now) THEN "Timelock must be in the future"
    ELSE IF _hashedSecret = ZeroHash THEN "Invalid hashed secret"
    ELSE IF _token = ZeroAddress /\ value # _amount THEN "Incorrect ETH amount"
    ELSE IF _token # ZeroAddress /\ value # 0
         THEN "ETH not needed for token swap"
    ELSE IF _token # ZeroAddress /\ balances[_token][sender] < _amount
         THEN "ERC20 transferFrom reverted"
    ELSE ""

\* The first failing require of initiateSwap, "" when none fails.
initiateSwapRevert(sender, value, _swapId, _participant, _token, _amount, _hashedSecret, _timelock) ==
    IF nonReentrant # "" THEN nonReentrant
    ELSE IF swaps[_swapId].exists THEN "Swap already exists"
    ELSE IF _participant = ZeroAddress THEN "Invalid participant"
    ELSE IF ~(_amount > 0) THEN "Amount must be greater than 0"
    ELSE IF ~(_timelock > now) THEN "Timelock must be in the future"
    ELSE IF _hashedSecret = ZeroHash THEN "Invalid hashed secret"
    ELSE IF _token = ZeroAddress /\ value # _amount THEN "Incorrect ETH amount"
    ELSE IF _token # ZeroAddress /\ value # 0
         THEN "ETH not needed for token swap"
    ELSE IF _token # ZeroAddress /\ balances[_token][sender] < _amount
         THEN "ERC20 transferFrom reverted"
    ELSE ""

initiateSwap(sender, value, _swapId, _participant, _token, _amount, _hashedSecret, _timelock) ==
    /\ value <= balances[ZeroAddress][sender]
    /\ LET why == initiateSwapRevert(sender, value, _swapId, _participant,
                                     _token, _amount, _hashedSecret, _timelock)
       IN IF why # ""
          THEN /\ result' = Done("initiateSwap", why)
               /\ UNCHANGED <<swaps, balances, now, revealed, backendVars, frame, coordVars, listing, utxo, utxoLeg>>
          ELSE /\ balances' = transfer(balances, _token, sender,
                                       ContractAddress,
                                       IF _token = ZeroAddress
                                       THEN value ELSE _amount)
               /\ swaps' = [swaps EXCEPT ![_swapId] =
                      [initiator |-> sender, participant |-> _participant,
                       token |-> _token, amount |-> _amount,
                       hashedSecret |-> _hashedSecret, timelock |-> _timelock,
                       withdrawn |-> FALSE, refunded |-> FALSE,
                       exists |-> TRUE]]
               /\ result' = Done("initiateSwap", "ok")
               /\ UNCHANGED <<now, revealed, backendVars, frame, coordVars, listing, utxo, utxoLeg>>

\* withdrawable without the timelock require.
withdrawable_NoTimelockCheck(_swapId, _secret) ==
    IF ~swaps[_swapId].exists THEN "Swap does not exist"
    ELSE IF swaps[_swapId].withdrawn THEN "Already withdrawn"
    ELSE IF swaps[_swapId].refunded THEN "Already refunded"
    ELSE IF sha256(_secret) # swaps[_swapId].hashedSecret THEN "Invalid secret"
    ELSE ""

\* withdrawable with the secret checked before the terminal flags.
withdrawable_SecretFirst(_swapId, _secret) ==
    IF ~swaps[_swapId].exists THEN "Swap does not exist"
    ELSE IF sha256(_secret) # swaps[_swapId].hashedSecret THEN "Invalid secret"
    ELSE IF swaps[_swapId].withdrawn THEN "Already withdrawn"
    ELSE IF swaps[_swapId].refunded THEN "Already refunded"
    ELSE IF ~(now < swaps[_swapId].timelock) THEN "Timelock expired"
    ELSE ""

\* withdrawable without require(!swaps[_swapId].refunded).
withdrawable_NoRefundedCheck(_swapId, _secret) ==
    IF ~swaps[_swapId].exists THEN "Swap does not exist"
    ELSE IF swaps[_swapId].withdrawn THEN "Already withdrawn"
    ELSE IF sha256(_secret) # swaps[_swapId].hashedSecret THEN "Invalid secret"
    ELSE IF ~(now < swaps[_swapId].timelock) THEN "Timelock expired"
    ELSE ""

\* withdrawable with the timelock checked before the secret.
withdrawable_TimelockFirst(_swapId, _secret) ==
    IF ~swaps[_swapId].exists THEN "Swap does not exist"
    ELSE IF swaps[_swapId].withdrawn THEN "Already withdrawn"
    ELSE IF swaps[_swapId].refunded THEN "Already refunded"
    ELSE IF ~(now < swaps[_swapId].timelock) THEN "Timelock expired"
    ELSE IF sha256(_secret) # swaps[_swapId].hashedSecret THEN "Invalid secret"
    ELSE ""

\* withdrawable without the hash require.
withdrawable_NoSecretCheck(_swapId, _secret) ==
    IF ~swaps[_swapId].exists THEN "Swap does not exist"
    ELSE IF swaps[_swapId].withdrawn THEN "Already withdrawn"
    ELSE IF swaps[_swapId].refunded THEN "Already refunded"
    ELSE IF ~(now < swaps[_swapId].timelock) THEN "Timelock expired"
    ELSE ""

\* withdrawable with the claim window reaching through the timelock.
withdrawable_ThroughTimelock(_swapId, _secret) ==
    IF ~swaps[_swapId].exists THEN "Swap does not exist"
    ELSE IF swaps[_swapId].withdrawn THEN "Already withdrawn"
    ELSE IF swaps[_swapId].refunded THEN "Already refunded"
    ELSE IF sha256(_secret) # swaps[_swapId].hashedSecret THEN "Invalid secret"
    ELSE IF ~(now <= swaps[_swapId].timelock) THEN "Timelock expired"
    ELSE ""

\* The first failing require of modifier withdrawable, "" when none fails.
withdrawable(_swapId, _secret) ==
    IF ~swaps[_swapId].exists THEN "Swap does not exist"
    ELSE IF swaps[_swapId].withdrawn THEN "Already withdrawn"
    ELSE IF swaps[_swapId].refunded THEN "Already refunded"
    ELSE IF sha256(_secret) # swaps[_swapId].hashedSecret THEN "Invalid secret"
    ELSE IF ~(now < swaps[_swapId].timelock) THEN "Timelock expired"
    ELSE ""

\* refundable without require(!swaps[_swapId].withdrawn).
refundable_NoWithdrawnCheck(sender, _swapId) ==
    IF ~swaps[_swapId].exists THEN "Swap does not exist"
    ELSE IF swaps[_swapId].refunded THEN "Already refunded"
    ELSE IF ~(now >= swaps[_swapId].timelock) THEN "Timelock not expired"
    ELSE IF sender # swaps[_swapId].initiator THEN "Only initiator can refund"
    ELSE ""

\* refundable without the initiator require.
refundable_NoInitiatorCheck(sender, _swapId) ==
    IF ~swaps[_swapId].exists THEN "Swap does not exist"
    ELSE IF swaps[_swapId].withdrawn THEN "Already withdrawn"
    ELSE IF swaps[_swapId].refunded THEN "Already refunded"
    ELSE IF ~(now >= swaps[_swapId].timelock) THEN "Timelock not expired"
    ELSE ""

\* refundable with the timelock bound left out of the refund window.
refundable_AfterTimelock(sender, _swapId) ==
    IF ~swaps[_swapId].exists THEN "Swap does not exist"
    ELSE IF swaps[_swapId].withdrawn THEN "Already withdrawn"
    ELSE IF swaps[_swapId].refunded THEN "Already refunded"
    ELSE IF ~(now > swaps[_swapId].timelock) THEN "Timelock not expired"
    ELSE IF sender # swaps[_swapId].initiator THEN "Only initiator can refund"
    ELSE ""

\* The first failing require of modifier refundable, "" when none fails.
refundable(sender, _swapId) ==
    IF ~swaps[_swapId].exists THEN "Swap does not exist"
    ELSE IF swaps[_swapId].withdrawn THEN "Already withdrawn"
    ELSE IF swaps[_swapId].refunded THEN "Already refunded"
    ELSE IF ~(now >= swaps[_swapId].timelock) THEN "Timelock not expired"
    ELSE IF sender # swaps[_swapId].initiator THEN "Only initiator can refund"
    ELSE ""

withdrawRevert(sender, _swapId, _secret) ==
    IF nonReentrant # "" THEN nonReentrant
    ELSE IF withdrawable(_swapId, _secret) # ""
         THEN withdrawable(_swapId, _secret)
    ELSE IF sender # swaps[_swapId].participant
         THEN "Only participant can withdraw"
    ELSE IF balances[swaps[_swapId].token][ContractAddress]
                < swaps[_swapId].amount
         THEN "transfer reverted"
    ELSE ""

\* withdraw that sets the flag before it looks at the caller and returns
\* instead of reverting when the caller is not the participant.
withdraw_FlagBeforeCaller(sender, _swapId, _secret) ==
    LET why == withdrawRevert(sender, _swapId, _secret)
        swap == swaps[_swapId]
    IN IF why = "Only participant can withdraw"
       THEN /\ swaps' = [swaps EXCEPT ![_swapId].withdrawn = TRUE]
            /\ result' = Done("withdraw", why)
            /\ UNCHANGED <<balances, now, revealed, backendVars, frame, coordVars, listing, utxo, utxoLeg>>
       ELSE IF why # ""
       THEN /\ result' = Done("withdraw", why)
            /\ UNCHANGED <<swaps, balances, now, revealed, backendVars, frame, coordVars, listing, utxo, utxoLeg>>
       ELSE /\ swaps' = [swaps EXCEPT ![_swapId].withdrawn = TRUE]
            /\ balances' = transfer(balances, swap.token, ContractAddress, swap.participant, swap.amount)
            /\ revealed' = revealed \cup {<<_swapId, _secret>>}
            /\ result' = Done("withdraw", "ok")
            /\ UNCHANGED <<now, backendVars, frame, coordVars, listing, utxo, utxoLeg>>

withdraw(sender, _swapId, _secret) ==
    LET why == withdrawRevert(sender, _swapId, _secret)
        swap == swaps[_swapId]
    IN IF why # ""
       THEN /\ result' = Done("withdraw", why)
            /\ UNCHANGED <<swaps, balances, now, revealed, backendVars, frame, coordVars, listing, utxo, utxoLeg>>
       ELSE /\ swaps' = [swaps EXCEPT ![_swapId].withdrawn = TRUE]
            /\ balances' = transfer(balances, swap.token, ContractAddress,
                                    swap.participant, swap.amount)
            /\ revealed' = revealed \cup {<<_swapId, _secret>>}
            /\ result' = Done("withdraw", "ok")
            /\ UNCHANGED <<now, backendVars, frame, coordVars, listing, utxo, utxoLeg>>

refundRevert(sender, _swapId) ==
    IF nonReentrant # "" THEN nonReentrant
    ELSE IF refundable(sender, _swapId) # "" THEN refundable(sender, _swapId)
    ELSE IF balances[swaps[_swapId].token][ContractAddress]
                < swaps[_swapId].amount
         THEN "transfer reverted"
    ELSE ""

refund(sender, _swapId) ==
    LET why == refundRevert(sender, _swapId)
        swap == swaps[_swapId]
    IN IF why # ""
       THEN /\ result' = Done("refund", why)
            /\ UNCHANGED <<swaps, balances, now, revealed, backendVars, frame, coordVars, listing, utxo, utxoLeg>>
       ELSE /\ swaps' = [swaps EXCEPT ![_swapId].refunded = TRUE]
            /\ balances' = transfer(balances, swap.token, ContractAddress,
                                    swap.initiator, swap.amount)
            /\ result' = Done("refund", "ok")
            /\ UNCHANGED <<now, revealed, backendVars, frame, coordVars, listing, utxo, utxoLeg>>

\* isWithdrawable with the timelock bound included.
isWithdrawable_AtTimelock(_swapId, _secret) ==
    LET swap == swaps[_swapId] IN
    /\ swap.exists
    /\ ~swap.withdrawn
    /\ ~swap.refunded
    /\ sha256(_secret) = swap.hashedSecret
    /\ now <= swap.timelock

\* The view isWithdrawable: it reads the record and the clock, not the caller.
isWithdrawable(_swapId, _secret) ==
    LET swap == swaps[_swapId] IN
    /\ swap.exists
    /\ ~swap.withdrawn
    /\ ~swap.refunded
    /\ sha256(_secret) = swap.hashedSecret
    /\ now < swap.timelock

\* The view isRefundable: it reads the record and the clock, not the caller.
isRefundable(_swapId) ==
    LET swap == swaps[_swapId] IN
    /\ swap.exists
    /\ ~swap.withdrawn
    /\ ~swap.refunded
    /\ now >= swap.timelock

\* block.timestamp moves forward between transactions.
Tick ==
    /\ now < MaxTime
    /\ now' = now + 1
    /\ UNCHANGED <<swaps, balances, revealed, result, backendVars, frame, coordVars, listing, utxo, utxoLeg>>

(***************************************************************************)
(* The backend registry and its simulated UTXO leg.                        *)
(***************************************************************************)
\* Buffer.from(string, 'hex'): decoding stops at the first pair that is not
\* two hex digits, so a "0x" prefixed string and a string that is not hex
\* decode to no bytes at all.
fromHex(h) ==
    IF h.hex /\ ~h.prefixed THEN Bytes(h.len, h.bytes) ELSE EmptyBuffer

\* createAtomicSwapScript: the pushes of the compiled script.
createAtomicSwapScript(hashedSecret, timelock, recipientPubKey, senderPubKey) ==
    [hash |-> fromHex(hashedSecret), timelock |-> timelock,
     recipientPubKey |-> recipientPubKey, senderPubKey |-> senderPubKey]

\* The entry POST /api/swap/eth-to-btc/initiate stores.
ethToBtcEntry(hashedSecret, timelock) ==
    [NoSwap EXCEPT !.type = "eth-to-btc", !.hashedSecret = hashedSecret,
                   !.timelock = timelock, !.status = "initiated"]

\* The entry POST /api/swap/btc-to-eth/initiate stores, with the script
\* compiled for it.
btcToEthEntry(hashedSecret, timelock, btcSenderPubKey, btcRecipientPubKey) ==
    [NoSwap EXCEPT !.type = "btc-to-eth",
                   !.hashedSecret = hashedSecret,
                   !.timelock = timelock,
                   !.btcScript = createAtomicSwapScript(hashedSecret, timelock, btcRecipientPubKey, btcSenderPubKey),
                   !.btcSenderPubKey = btcSenderPubKey,
                   !.btcRecipientPubKey = btcRecipientPubKey,
                   !.status = "initiated"]

\* POST /api/swap/eth-to-btc/initiate.  A request that lacks a parameter is
\* refused; the entry replaces whatever the registry held under swapId.
postEthToBtcInitiate(swapId, hashedSecret, timelock, btcAddress) ==
    IF hashedSecret = Undefined \/ timelock = 0 \/ btcAddress = "undefined"
    THEN /\ response' = ReplyFor("eth-to-btc/initiate", 400, "Missing required parameters", swapId, "")
         /\ UNCHANGED <<swaps, balances, now, revealed, result, activeSwaps, frame, form, fusionSwaps, legs, listing, utxo, utxoLeg>>
    ELSE /\ activeSwaps' = [activeSwaps EXCEPT ![swapId] = ethToBtcEntry(hashedSecret, timelock)]
         /\ legs' = [legs EXCEPT ![swapId] = IF @ < MaxLegs THEN @ + 1 ELSE @]
         /\ response' = ReplyFor("eth-to-btc/initiate", 200, "", swapId, "")
         /\ utxoLeg' = [utxoLeg EXCEPT ![swapId] = NoSettlement]
         /\ UNCHANGED <<swaps, balances, now, revealed, result, frame, form, fusionSwaps, listing, utxo>>

\* POST /api/swap/btc-to-eth/initiate.  createAtomicSwapScript throws on a
\* missing hashedSecret or public key (Buffer.from(undefined)); a "0x"
\* prefixed hashedSecret is accepted.  A public key is named by its owner.
\* The entry replaces whatever the registry held under swapId.
postBtcToEthInitiate(swapId, hashedSecret, timelock, btcSenderPubKey, btcRecipientPubKey) ==
    IF \/ hashedSecret = Undefined
       \/ btcSenderPubKey = "undefined"
       \/ btcRecipientPubKey = "undefined"
    THEN /\ response' = ReplyFor("btc-to-eth/initiate", 500, "TypeError", swapId, "")
         /\ UNCHANGED <<swaps, balances, now, revealed, result, activeSwaps, frame, coordVars, listing, utxo, utxoLeg>>
    ELSE /\ activeSwaps' = [activeSwaps EXCEPT ![swapId] = btcToEthEntry(hashedSecret, timelock, btcSenderPubKey, btcRecipientPubKey)]
         /\ legs' = [legs EXCEPT ![swapId] = IF @ < MaxLegs THEN @ + 1 ELSE @]
         /\ response' = ReplyFor("btc-to-eth/initiate", 200, "", swapId, "")
         /\ utxoLeg' = [utxoLeg EXCEPT ![swapId] = NoSettlement]
         /\ UNCHANGED <<swaps, balances, now, revealed, result, frame, form, fusionSwaps, listing, utxo>>

\* GET /api/swap/:swapId/status: the stored entry as it is.
getStatus(swapId) ==
    /\ response' = IF activeSwaps[swapId] = NoSwap
                   THEN ReplyFor("status", 404, "Swap not found", swapId, "")
                   ELSE ReplyFor("status", 200, "", swapId, activeSwaps[swapId].status)
    /\ UNCHANGED <<swaps, balances, now, revealed, result, activeSwaps, frame, coordVars, listing, utxo, utxoLeg>>

\* The first check of POST /api/swap/:swapId/complete that answers with an
\* error, "" when the swap is marked completed.  The digest of the decoded
\* secret is compared as bare hex with the stored string.
postCompleteError(swapId, secret) ==
    LET swap == activeSwaps[swapId] IN
    IF swap = NoSwap THEN "Swap not found"
    ELSE IF secret = Undefined THEN "TypeError"
    ELSE IF Hex(FALSE, sha256(fromHex(secret).value)) # swap.hashedSecret
         THEN "Invalid secret"
    ELSE ""

\* POST /api/swap/:swapId/complete.
postComplete(swapId, secret, txHash) ==
    LET error == postCompleteError(swapId, secret) IN
    /\ response' = ReplyFor("complete",
                            IF error = "" THEN 200
                            ELSE IF error = "Swap not found" THEN 404
                            ELSE IF error = "TypeError" THEN 500 ELSE 400,
                            error, swapId, "")
    /\ IF error # ""
       THEN UNCHANGED activeSwaps
       ELSE activeSwaps' = [activeSwaps EXCEPT ![swapId] =
                [@ EXCEPT !.status = "completed", !.secret = secret,
                          !.completionTxHash = txHash, !.completedAt = now]]
    /\ UNCHANGED <<swaps, balances, now, revealed, result, frame, coordVars, listing, utxo, utxoLeg>>

\* The first check of POST /api/swap/:swapId/withdraw that answers with an
\* error, "" when the withdrawal goes through.
postWithdrawError(swapId, secret) ==
    LET swap == activeSwaps[swapId] IN
    IF swap = NoSwap THEN "Swap not found"
    ELSE IF swap.type # "btc-to-eth" /\ swap.type # "doge-to-eth"
         THEN "This endpoint only handles BTC/DOGE to ETH swaps"
    ELSE IF secret = Undefined THEN "TypeError"
    ELSE IF ~secret.hex THEN "Invalid secret format"
    ELSE IF Hex(TRUE, sha256(secret.bytes)) # swap.hashedSecret
         THEN "Invalid secret. Does not match hashed secret."
    ELSE IF swap.status = "completed" THEN "Swap already withdrawn"
    ELSE IF now >= swap.timelock
         THEN "Swap has expired and can only be refunded"
    ELSE ""

postWithdrawCode(error) ==
    IF error = "" THEN 200
    ELSE IF error = "Swap not found" THEN 404
    ELSE IF error = "TypeError" THEN 500
    ELSE 400

\* POST /api/swap/:swapId/withdraw.
postWithdraw(swapId, secret) ==
    LET error == postWithdrawError(swapId, secret) IN
    /\ response' = ReplyFor("withdraw", postWithdrawCode(error), error, swapId, "")
    /\ IF error # ""
       THEN UNCHANGED activeSwaps
       ELSE activeSwaps' = [activeSwaps EXCEPT ![swapId] =
                [@ EXCEPT !.status = "completed", !.completedAt = now,
                          !.withdrawnSecret = Hex(TRUE, secret.bytes)]]
    /\ utxoLeg' = IF error # "" THEN utxoLeg
                  ELSE [utxoLeg EXCEPT ![swapId].withdrawn = TRUE]
    /\ UNCHANGED <<swaps, balances, now, revealed, result, frame, coordVars, listing, utxo>>

\* The first check of POST /api/swap/:swapId/refund that answers with an
\* error, "" when the refund goes through.
postRefundError(swapId) ==
    LET swap == activeSwaps[swapId] IN
    IF swap = NoSwap THEN "Swap not found"
    ELSE IF swap.type # "btc-to-eth" /\ swap.type # "doge-to-eth"
         THEN "This endpoint only handles BTC/DOGE to ETH swaps"
    ELSE IF swap.status = "completed"
         THEN "Swap already withdrawn, cannot refund"
    ELSE IF swap.status = "refunded" THEN "Swap already refunded"
    ELSE IF now < swap.timelock THEN "Cannot refund yet"
    ELSE ""

\* POST /api/swap/:swapId/refund.
postRefund(swapId) ==
    LET error == postRefundError(swapId) IN
    /\ response' = ReplyFor("refund",
                            IF error = "" THEN 200
                            ELSE IF error = "Swap not found" THEN 404 ELSE 400,
                            error, swapId, "")
    /\ IF error # ""
       THEN UNCHANGED activeSwaps
       ELSE activeSwaps' = [activeSwaps EXCEPT ![swapId] =
                [@ EXCEPT !.status = "refunded", !.refundedAt = now]]
    /\ utxoLeg' = IF error # "" THEN utxoLeg
                  ELSE [utxoLeg EXCEPT ![swapId].refunded = TRUE]
    /\ UNCHANGED <<swaps, balances, now, revealed, result, frame, coordVars, listing, utxo>>


\* A well-formed ETH call, a well-formed token call and the all-zero call.
DuplicateArgs ==
    {[value |-> 1, participant |-> "bob", token |-> ZeroAddress, amount |-> 1,
      hashedSecret |-> sha256(1), timelock |-> MaxTime],
     [value |-> 0, participant |-> "alice", token |-> ERC20Token, amount |-> 1,
      hashedSecret |-> sha256(1), timelock |-> MaxTime],
     [value |-> 0, participant |-> ZeroAddress, token |-> ZeroAddress,
      amount |-> 0, hashedSecret |-> ZeroHash, timelock |-> 0]}

\* The arguments of an initiateSwap call.  On an id already in use the first
\* require rejects the call whatever the other arguments are, so those calls
\* are drawn from DuplicateArgs rather than from the whole argument space.
InitiateArgs(_swapId) ==
    IF swaps[_swapId].exists
    THEN DuplicateArgs
    ELSE [value : Amounts, participant : Addresses, token : Tokens,
          amount : Amounts, hashedSecret : HashInputs, timelock : Times]

InitiateSwap ==
    \E sender \in Users, _swapId \in SwapIds :
        \E a \in InitiateArgs(_swapId) :
            initiateSwap(sender, a.value, _swapId, a.participant, a.token,
                         a.amount, a.hashedSecret, a.timelock)

Withdraw ==
    \E sender \in Users, _swapId \in SwapIds, _secret \in Secrets :
        withdraw(sender, _swapId, _secret)

Refund ==
    \E sender \in Users, _swapId \in SwapIds : refund(sender, _swapId)

Next == InitiateSwap \/ Withdraw \/ Refund \/ Tick

Spec == Init /\ [][Next]_vars

(***************************************************************************)
(* The contract with recipients that run code: a payout hands control to   *)
(* the recipient before withdraw or refund returns.  The recipient may     *)
(* call back into the contract, return, or revert the whole call.          *)
(***************************************************************************)
\* withdraw up to its transfer: the flag is set and the amount has left the
\* contract when the recipient's code starts to run.
withdrawTransfer(sender, _swapId, _secret) ==
    LET swap == swaps[_swapId] IN
    /\ withdrawRevert(sender, _swapId, _secret) = ""
    /\ swaps' = [swaps EXCEPT ![_swapId].withdrawn = TRUE]
    /\ balances' = transfer(balances, swap.token, ContractAddress, swap.participant, swap.amount)
    /\ frame' = [entered |-> TRUE, op |-> "withdraw", swapId |-> _swapId,
                 secret |-> _secret, callee |-> swap.participant,
                 swaps |-> swaps, balances |-> balances]
    /\ result' = Done("withdraw", "transfer")
    /\ UNCHANGED <<now, revealed, backendVars, coordVars, listing, utxo, utxoLeg>>

\* refund up to its transfer.
refundTransfer(sender, _swapId) ==
    LET swap == swaps[_swapId] IN
    /\ refundRevert(sender, _swapId) = ""
    /\ swaps' = [swaps EXCEPT ![_swapId].refunded = TRUE]
    /\ balances' = transfer(balances, swap.token, ContractAddress, swap.initiator, swap.amount)
    /\ frame' = [entered |-> TRUE, op |-> "refund", swapId |-> _swapId,
                 secret |-> 0, callee |-> swap.initiator,
                 swaps |-> swaps, balances |-> balances]
    /\ result' = Done("refund", "transfer")
    /\ UNCHANGED <<now, revealed, backendVars, coordVars, listing, utxo, utxoLeg>>

\* The recipient calls back into the contract while the transfer runs.
Reenter ==
    /\ frame.entered
    /\ \/ \E _swapId \in SwapIds, _secret \in Secrets :
              withdraw(frame.callee, _swapId, _secret)
       \/ \E _swapId \in SwapIds : refund(frame.callee, _swapId)
       \/ \E _swapId \in SwapIds, a \in DuplicateArgs :
              initiateSwap(frame.callee, a.value, _swapId, a.participant, a.token, a.amount, a.hashedSecret, a.timelock)

\* The transfer returns: the event is emitted and the guard released.
TransferReturns ==
    /\ frame.entered
    /\ revealed' = IF frame.op = "withdraw"
                   THEN revealed \cup {<<frame.swapId, frame.secret>>}
                   ELSE revealed
    /\ frame' = NoFrame
    /\ result' = Done(frame.op, "ok")
    /\ UNCHANGED <<swaps, balances, now, backendVars, coordVars, listing, utxo, utxoLeg>>

\* The recipient reverts: the whole call is undone.
TransferReverts ==
    /\ frame.entered
    /\ swaps' = frame.swaps
    /\ balances' = frame.balances
    /\ frame' = NoFrame
    /\ result' = Done(frame.op, "transfer reverted")
    /\ UNCHANGED <<now, revealed, backendVars, coordVars, listing, utxo, utxoLeg>>

WithdrawTransfer ==
    \E sender \in Users, _swapId \in SwapIds, _secret \in Secrets :
        withdrawTransfer(sender, _swapId, _secret)

RefundTransfer ==
    \E sender \in Users, _swapId \in SwapIds : refundTransfer(sender, _swapId)

NextReenter ==
    \/ ~frame.entered /\ Next
    \/ WithdrawTransfer
    \/ RefundTransfer
    \/ Reenter
    \/ TransferReturns
    \/ TransferReverts

SpecReenter == Init /\ [][NextReenter]_vars

(***************************************************************************)
(* The contract with an ERC20 token that reports a failed transfer by      *)
(* returning false instead of reverting.  The contract calls transferFrom  *)
(* and transfer without looking at what they return.                       *)
(***************************************************************************)
\* initiateSwap when transferFrom returns false: every require has passed,
\* no token moves and the record is written.
initiateSwapUnpaid(sender, value, _swapId, _participant, _token, _amount, _hashedSecret, _timelock) ==
    /\ initiateSwapRevert(sender, value, _swapId, _participant, _token, _amount, _hashedSecret, _timelock) = "ERC20 transferFrom reverted"
    /\ swaps' = [swaps EXCEPT ![_swapId] =
           [initiator |-> sender, participant |-> _participant,
            token |-> _token, amount |-> _amount,
            hashedSecret |-> _hashedSecret, timelock |-> _timelock,
            withdrawn |-> FALSE, refunded |-> FALSE, exists |-> TRUE]]
    /\ result' = Done("initiateSwap", "ok")
    /\ UNCHANGED <<balances, now, revealed, backendVars, frame, coordVars, listing, utxo, utxoLeg>>

\* withdraw when the token's transfer returns false: the flag is set, the
\* event emitted and nothing is paid.
withdrawUnpaid(sender, _swapId, _secret) ==
    /\ swaps[_swapId].token # ZeroAddress
    /\ withdrawRevert(sender, _swapId, _secret) = "transfer reverted"
    /\ swaps' = [swaps EXCEPT ![_swapId].withdrawn = TRUE]
    /\ revealed' = revealed \cup {<<_swapId, _secret>>}
    /\ result' = Done("withdraw", "ok")
    /\ UNCHANGED <<balances, now, backendVars, frame, coordVars, listing, utxo, utxoLeg>>

\* refund when the token's transfer returns false.
refundUnpaid(sender, _swapId) ==
    /\ swaps[_swapId].token # ZeroAddress
    /\ refundRevert(sender, _swapId) = "transfer reverted"
    /\ swaps' = [swaps EXCEPT ![_swapId].refunded = TRUE]
    /\ result' = Done("refund", "ok")
    /\ UNCHANGED <<balances, now, revealed, backendVars, frame, coordVars, listing, utxo, utxoLeg>>

InitiateSwapUnpaid ==
    \E sender \in Users, _swapId \in SwapIds, _participant \in Users, _timelock \in Times :
        initiateSwapUnpaid(sender, 0, _swapId, _participant, ERC20Token, 1, sha256(1), _timelock)

WithdrawUnpaid ==
    \E sender \in Users, _swapId \in SwapIds, _secret \in Secrets :
        withdrawUnpaid(sender, _swapId, _secret)

RefundUnpaid ==
    \E sender \in Users, _swapId \in SwapIds : refundUnpaid(sender, _swapId)

NextToken ==
    \/ NextReenter
    \/ ~frame.entered /\ InitiateSwapUnpaid
    \/ ~frame.entered /\ WithdrawUnpaid
    \/ ~frame.entered /\ RefundUnpaid

SpecToken == Init /\ [][NextToken]_vars

(***************************************************************************)
(* One swap across both ledgers: the escrow record "id1" and the registry  *)
(* entry "id2" of the UTXO leg, locked by the two parties under the digest *)
(* of a secret that only its generator knows until a claim publishes it.   *)
(***************************************************************************)
EthLeg == "id1"
UtxoLeg == "id2"
SecretHolder == "alice"

\* A secret is public once a claim on either ledger carried it.
Public(s) ==
    \/ \E id \in SwapIds : <<id, s>> \in revealed
    \/ \E id \in SwapIds :
          /\ activeSwaps[id] # NoSwap
          /\ activeSwaps[id].withdrawnSecret = Hex(TRUE, s)

Knows(user, s) == user = SecretHolder \/ Public(s)

UtxoLegOpen ==
    /\ activeSwaps[UtxoLeg] # NoSwap
    /\ activeSwaps[UtxoLeg].status = "initiated"
    /\ now < activeSwaps[UtxoLeg].timelock

EthLegOpen == Open(EthLeg) /\ now < swaps[EthLeg].timelock

\* A claim that a party who knows the secret can make right now.
ClaimPending ==
    \E s \in Secrets :
        /\ Public(s)
        /\ \/ /\ EthLegOpen
              /\ swaps[EthLeg].hashedSecret = sha256(s)
           \/ /\ UtxoLegOpen
              /\ activeSwaps[UtxoLeg].hashedSecret = Hex(TRUE, sha256(s))

\* A party locks ETH for the other party, alone or against a UTXO leg that
\* is still open and was locked by that other party for it.
CrossInitiateEth ==
    /\ activeSwaps[UtxoLeg] = NoSwap \/ UtxoLegOpen
    /\ \E sender \in Users, _participant \in Users, _timelock \in Times :
          /\ _participant # sender
          /\ UtxoLegOpen =>
                /\ sender = activeSwaps[UtxoLeg].btcRecipientPubKey
                /\ _participant = activeSwaps[UtxoLeg].btcSenderPubKey
          /\ initiateSwap(sender, 1, EthLeg, _participant, ZeroAddress, 1,
                          sha256(1), _timelock)

\* A party registers the UTXO leg for the other party with a timelock in
\* the future, alone or against an ETH leg that is still open and was locked
\* by that other party for it.  The hash is the "0x" prefixed string of
\* /api/generate-secret; a request may lack it.
CrossInitiateUtxo ==
    /\ activeSwaps[UtxoLeg] = NoSwap
    /\ ~swaps[EthLeg].exists \/ EthLegOpen
    /\ \E hashedSecret \in {Hex(TRUE, sha256(1)), Undefined},
          timelock \in Times, btcSender \in Users, btcRecipient \in Users :
          /\ timelock > now
          /\ btcSender # btcRecipient
          /\ EthLegOpen =>
                /\ btcSender = swaps[EthLeg].participant
                /\ btcRecipient = swaps[EthLeg].initiator
          /\ postBtcToEthInitiate(UtxoLeg, hashedSecret, timelock, btcSender,
                                  btcRecipient)

CrossWithdrawEth ==
    \E sender \in Users, s \in Secrets :
        Knows(sender, s) /\ withdraw(sender, EthLeg, s)

CrossRefundEth == \E sender \in Users : refund(sender, EthLeg)

\* The party the UTXO leg was locked for asks for it with a secret it knows,
\* or with no usable secret.
CrossWithdrawUtxo ==
    \/ \E caller \in Users, prefixed \in BOOLEAN, s \in Secrets :
          /\ caller = activeSwaps[UtxoLeg].btcRecipientPubKey
          /\ Knows(caller, s)
          /\ postWithdraw(UtxoLeg, Hex(prefixed, s))
    \/ \E secret \in {Malformed, Undefined} : postWithdraw(UtxoLeg, secret)

CrossRefundUtxo == postRefund(UtxoLeg)

\* The clock moves only when no claim is waiting to be made: each party
\* claims as soon as the secret it needs is public.
CrossTick == ~ClaimPending /\ Tick

NextCross ==
    \/ CrossInitiateEth
    \/ CrossInitiateUtxo
    \/ CrossWithdrawEth
    \/ CrossRefundEth
    \/ CrossWithdrawUtxo
    \/ CrossRefundUtxo
    \/ CrossTick

SpecCross == Init /\ [][NextCross]_vars

(***************************************************************************)
(* The coordinator: the form of the frontend that creates a swap or the    *)
(* counter-swap of a listed one, the registry endpoints it and other       *)
(* clients call, and the intent-routing extension.                         *)
(***************************************************************************)
\* Ticks of the clock in the 3600 seconds of one hour of the timelock field.
Hour == 2
Hours == 1..MaxHours

\* Math.ceil(a / b) for b > 0.
ceil(a, b) == -((-a) \div b)
max(a, b) == IF a >= b THEN a ELSE b

\* The hash strings a client holds: the "0x" prefixed one that
\* /api/generate-secret answers with and the bare hex of generateSecret.
generateSecret(s) == [secret |-> Hex(FALSE, s), hashedSecret |-> Hex(TRUE, sha256(s))]
HashStrings == {Hex(TRUE, sha256(1)), Hex(FALSE, sha256(1))}
SecretStrings == {Hex(FALSE, 1), Hex(TRUE, 1), Hex(FALSE, 2), Undefined}
TxHashes == {"tx1", "tx2"}

\* The placeholder public keys the form sends.
PlaceholderSenderPubKey == "02000000"
PlaceholderRecipientPubKey == "03000000"

\* getCounterSwapDirection.
getCounterSwapDirection(originalType) ==
    IF originalType = "eth-to-btc" THEN "btc-to-eth" ELSE "eth-to-btc"

\* useEffect(acceptedSwap): the form is filled in from the swap being
\* accepted; its timelock field becomes the whole hours left on that swap,
\* rounded up, never fewer than one.
useEffectAcceptedSwap(acceptedSwap) ==
    LET hoursRemaining == max(1, ceil(acceptedSwap.timelock - now, Hour)) IN
    /\ form' = [form EXCEPT !.isAcceptingSwap = TRUE,
                            !.swapDirection = getCounterSwapDirection(acceptedSwap.type),
                            !.useCustomHashedSecret = TRUE,
                            !.customHashedSecret = acceptedSwap.hashedSecret,
                            !.timelock = hoursRemaining,
                            !.acceptedSwap = acceptedSwap]
    /\ UNCHANGED <<contractVars, now, backendVars, fusionSwaps, legs, listing, utxo, utxoLeg>>

\* SwapBrowser lists the swaps whose status is 'initiated'; one is accepted.
AcceptSwap ==
    \E id \in SwapIds :
        /\ activeSwaps[id] # NoSwap
        /\ activeSwaps[id].status = "initiated"
        /\ ~form.isAcceptingSwap
        /\ useEffectAcceptedSwap(activeSwaps[id])

\* The timelock field, from 1 hour up; it is disabled while a swap is being
\* accepted.
SetTimelock ==
    /\ ~form.isAcceptingSwap
    /\ \E hours \in Hours : form' = [form EXCEPT !.timelock = hours]
    /\ UNCHANGED <<contractVars, now, backendVars, fusionSwaps, legs, listing, utxo, utxoLeg>>

\* The direction selector, disabled while a swap is being accepted.
SetSwapDirection ==
    /\ ~form.isAcceptingSwap
    /\ \E direction \in {"eth-to-btc", "btc-to-eth"} :
          form' = [form EXCEPT !.swapDirection = direction]
    /\ UNCHANGED <<contractVars, now, backendVars, fusionSwaps, legs, listing, utxo, utxoLeg>>

\* The custom hashed secret checkbox and its text field, which may be left
\* empty.
SetCustomHashedSecret ==
    /\ ~form.isAcceptingSwap
    /\ \E checked \in BOOLEAN, text \in HashStrings \cup {Undefined} :
          form' = [form EXCEPT !.useCustomHashedSecret = checked,
                               !.customHashedSecret = text]
    /\ UNCHANGED <<contractVars, now, backendVars, fusionSwaps, legs, listing, utxo, utxoLeg>>

\* The check of handleSubmit that stops the submission with an alert, "" when
\* the swap is initiated.  filled: the amounts and the address are typed in.
handleSubmitAlert(f, filled) ==
    IF ~filled THEN "Please enter both ETH and crypto amounts"
    ELSE IF f.useCustomHashedSecret /\ f.customHashedSecret = Undefined
         THEN "Please enter the hashed secret or uncheck the custom option"
    ELSE ""

\* The hashed secret and the timelock a submission sends.
submittedHashedSecret(f, s) ==
    IF f.useCustomHashedSecret /\ f.customHashedSecret # Undefined
    THEN f.customHashedSecret
    ELSE generateSecret(s).hashedSecret
timelockTimestamp(f) == now + f.timelock * Hour

\* initiateEthToCryptoSwap: the contract call, sent by account for account,
\* then the registration.  A hashed secret that is no "0x" string of 32
\* bytes, a lack of funds or a revert ends in the catch with no registration.
initiateEthToCryptoSwap(account, swapId, s) ==
    LET hashedSecret == submittedHashedSecret(form, s)
        timelock == timelockTimestamp(form)
        thrown ==
            IF ~(hashedSecret.hex /\ hashedSecret.prefixed) THEN "invalid BytesLike value"
            ELSE IF balances[ZeroAddress][account] < 1 THEN "insufficient funds"
            ELSE initiateSwapRevert(account, 1, swapId, account, ZeroAddress,
                                    1, hashedSecret.bytes, timelock)
    IN IF thrown # ""
       THEN /\ result' = Done("initiateEthToCryptoSwap", thrown)
            /\ UNCHANGED <<swaps, balances, revealed, frame, now, backendVars, coordVars, listing, utxo, utxoLeg>>
       ELSE /\ balances' = transfer(balances, ZeroAddress, account, ContractAddress, 1)
            /\ swaps' = [swaps EXCEPT ![swapId] =
                   [initiator |-> account, participant |-> account,
                    token |-> ZeroAddress, amount |-> 1,
                    hashedSecret |-> hashedSecret.bytes, timelock |-> timelock,
                    withdrawn |-> FALSE, refunded |-> FALSE, exists |-> TRUE]]
            /\ result' = Done("initiateSwap", "ok")
            /\ activeSwaps' = [activeSwaps EXCEPT ![swapId] = ethToBtcEntry(hashedSecret, timelock)]
            /\ legs' = [legs EXCEPT ![swapId] = IF @ < MaxLegs THEN @ + 1 ELSE @]
            /\ response' = ReplyFor("eth-to-btc/initiate", 200, "", swapId, "")
            /\ form' = [form EXCEPT !.swapResult = swapId]
            /\ UNCHANGED <<now, revealed, frame, fusionSwaps, listing, utxo, utxoLeg>>

\* initiateCryptoToEthSwap: the registration with the placeholder keys.
initiateCryptoToEthSwap(swapId, s) ==
    /\ activeSwaps' = [activeSwaps EXCEPT ![swapId] = btcToEthEntry(submittedHashedSecret(form, s), timelockTimestamp(form), PlaceholderSenderPubKey, PlaceholderRecipientPubKey)]
    /\ legs' = [legs EXCEPT ![swapId] = IF @ < MaxLegs THEN @ + 1 ELSE @]
    /\ response' = ReplyFor("btc-to-eth/initiate", 200, "", swapId, "")
    /\ form' = [form EXCEPT !.swapResult = swapId]
    /\ UNCHANGED <<contractVars, now, fusionSwaps, listing, utxo, utxoLeg>>

\* handleSubmit with a swap id from generateSwapId, which no swap has yet.
handleSubmit(account, swapId, s, filled) ==
    /\ activeSwaps[swapId] = NoSwap
    /\ ~swaps[swapId].exists
    /\ IF handleSubmitAlert(form, filled) # ""
       THEN /\ result' = Done("handleSubmit", handleSubmitAlert(form, filled))
            /\ UNCHANGED <<swaps, balances, revealed, frame, now, backendVars, coordVars, listing, utxo, utxoLeg>>
       ELSE IF form.swapDirection = "eth-to-btc"
            THEN initiateEthToCryptoSwap(account, swapId, s)
            ELSE initiateCryptoToEthSwap(swapId, s)

\* The component is mounted again: every field is back at its first value.
Remount ==
    /\ form # NoForm
    /\ form' = NoForm
    /\ UNCHANGED <<contractVars, now, backendVars, fusionSwaps, legs, listing, utxo, utxoLeg>>

HandleSubmit ==
    \E account \in Users, swapId \in SwapIds, filled \in BOOLEAN :
        handleSubmit(account, swapId, 1, filled)

\* Requests of any client of the registry about one swap id.  A timelock is
\* a time from now on or is missing.
RegistryIds == {"id1"}
PostEthToBtcInitiate ==
    \E swapId \in RegistryIds, hashedSecret \in HashStrings, timelock \in {0, now + 1} :
        postEthToBtcInitiate(swapId, hashedSecret, timelock, "btcAddress")

PostBtcToEthInitiate ==
    \E swapId \in RegistryIds, hashedSecret \in HashStrings \cup {Undefined} :
        postBtcToEthInitiate(swapId, hashedSecret, now + 1, "alice", "bob")

GetStatus == \E swapId \in RegistryIds : getStatus(swapId)

PostComplete ==
    \E swapId \in RegistryIds, secret \in SecretStrings, txHash \in TxHashes :
        postComplete(swapId, secret, txHash)

PostWithdraw ==
    \E swapId \in RegistryIds, secret \in {Hex(TRUE, 1), Hex(FALSE, 2)} :
        postWithdraw(swapId, secret)

PostRefund == \E swapId \in RegistryIds : postRefund(swapId)

\* The intent-routing extension.  Its clock counts milliseconds, the model's
\* one tick for each unit of the timelock argument.
FusionDefaultTimelock == 24 * Hour
OrderStatuses == {"pending", "filled", "cancelled"}

\* createCrossChainIntent under the id of generateSwapId, which no swap has
\* yet: an unsupported pair throws, otherwise the swap is stored.
createCrossChainIntent(swapId, supported, timelock) ==
    /\ fusionSwaps[swapId] = NoFusionSwap
    /\ IF ~supported
       THEN /\ response' = ReplyFor("createCrossChainIntent", 500, "Unsupported cross-chain pair", swapId, "")
            /\ UNCHANGED fusionSwaps
       ELSE /\ fusionSwaps' = [fusionSwaps EXCEPT ![swapId] =
                   [NoFusionSwap EXCEPT !.status = "initiated",
                                        !.hashedSecret = Hex(FALSE, sha256(1)),
                                        !.timelock = now + timelock,
                                        !.fusionStatus = "pending"]]
            /\ response' = ReplyFor("createCrossChainIntent", 200, "", swapId, "initiated")
    /\ UNCHANGED <<contractVars, now, activeSwaps, form, legs, listing, utxo, utxoLeg>>

\* getSwapStatus: the status follows the order status the SDK answers with;
\* checkCrossChainCompletion never reports a completion.  The answer carries
\* the status and the time remaining, which is 0 from the timelock on.
getSwapStatus(swapId, fusionStatus) ==
    IF fusionSwaps[swapId] = NoFusionSwap
    THEN /\ response' = ReplyFor("getSwapStatus", 500, "Swap not found", swapId, "")
         /\ UNCHANGED <<contractVars, now, activeSwaps, coordVars, listing, utxo, utxoLeg>>
    ELSE LET status == IF fusionStatus = "filled" THEN "ethereum_completed"
                       ELSE IF fusionStatus = "cancelled" THEN "cancelled"
                       ELSE fusionSwaps[swapId].status
         IN /\ fusionSwaps' = [fusionSwaps EXCEPT ![swapId].status = status,
                                                  ![swapId].fusionStatus = fusionStatus]
            /\ response' = ReplyFor("getSwapStatus", 200, "", swapId, status)
            /\ UNCHANGED <<contractVars, now, activeSwaps, form, legs, listing, utxo, utxoLeg>>

\* extractSecretFromCrossChain: it throws for every transaction and handler.
extractSecretFromCrossChain(txId) ==
    [thrown |-> TRUE, error |-> "Cross-chain secret extraction not implemented", secret |-> Undefined]

\* pair.handler.verifySecret on a secret of 32 bytes.
handlerVerifySecret(secret, hashedSecret) ==
    Hex(FALSE, sha256(fromHex(secret).value)) = hashedSecret

\* The error completeCrossChainSwap throws before it fills the order, "" when
\* it gets that far.
completeCrossChainSwapError(swapId, crossChainTxId) ==
    LET swap == fusionSwaps[swapId]
        extracted == extractSecretFromCrossChain(crossChainTxId)
    IN IF swap = NoFusionSwap THEN "Swap not found"
       ELSE IF extracted.thrown THEN extracted.error
       ELSE IF ~handlerVerifySecret(extracted.secret, swap.hashedSecret)
            THEN "Invalid secret in cross-chain transaction"
       ELSE ""

\* completeCrossChainSwap that marks the swap before it extracts the secret.
completeCrossChainSwap_StatusFirst(swapId, crossChainTxId, fillReturns) ==
    LET error == completeCrossChainSwapError(swapId, crossChainTxId) IN
    /\ fusionSwaps' = IF error = "Swap not found" THEN fusionSwaps
                      ELSE [fusionSwaps EXCEPT ![swapId].status = "completed",
                                                ![swapId].completedAt = now]
    /\ response' = IF error = "" /\ fillReturns
                   THEN ReplyFor("completeCrossChainSwap", 200, "", swapId, "completed")
                   ELSE ReplyFor("completeCrossChainSwap", 500,
                                 IF error # "" THEN error ELSE "fillOrder failed", swapId, "")
    /\ UNCHANGED <<contractVars, now, activeSwaps, form, legs, listing, utxo, utxoLeg>>

\* completeCrossChainSwap: an error thrown on the way, or by fillOrder,
\* reaches the caller before the swap is touched; when the fill returned the
\* swap is marked completed.
completeCrossChainSwap(swapId, crossChainTxId, fillReturns) ==
    LET error == completeCrossChainSwapError(swapId, crossChainTxId) IN
    IF error # "" \/ ~fillReturns
    THEN /\ response' = ReplyFor("completeCrossChainSwap", 500,
                                 IF error # "" THEN error ELSE "fillOrder failed", swapId, "")
         /\ UNCHANGED <<contractVars, now, activeSwaps, coordVars, listing, utxo, utxoLeg>>
    ELSE /\ fusionSwaps' = [fusionSwaps EXCEPT ![swapId].status = "completed",
                                               ![swapId].completedAt = now]
         /\ response' = ReplyFor("completeCrossChainSwap", 200, "", swapId, "completed")
         /\ UNCHANGED <<contractVars, now, activeSwaps, form, legs, listing, utxo, utxoLeg>>

CreateCrossChainIntent ==
    \E swapId \in FusionIds, supported \in BOOLEAN, timelock \in {1, FusionDefaultTimelock} :
        createCrossChainIntent(swapId, supported, timelock)

\* The order status can only be asked for an order that is not filled or
\* cancelled yet, or is answered as before.
GetSwapStatus ==
    \E swapId \in FusionIds, fusionStatus \in OrderStatuses :
        /\ fusionSwaps[swapId].fusionStatus \in {"undefined", "pending", fusionStatus}
        /\ getSwapStatus(swapId, fusionStatus)

CompleteCrossChainSwap ==
    \E swapId \in FusionIds, crossChainTxId \in TxHashes, fillReturns \in BOOLEAN :
        completeCrossChainSwap(swapId, crossChainTxId, fillReturns)

\* The form alone: swaps are created and accepted through it.
NextForm ==
    \/ AcceptSwap
    \/ SetTimelock
    \/ SetSwapDirection
    \/ SetCustomHashedSecret
    \/ HandleSubmit
    \/ Remount
    \/ Tick

SpecForm == Init /\ [][NextForm]_vars

\* The registry and the extension under the requests of any client.
NextRegistry ==
    \/ PostEthToBtcInitiate
    \/ PostBtcToEthInitiate
    \/ GetStatus
    \/ PostComplete
    \/ PostWithdraw
    \/ PostRefund
    \/ CreateCrossChainIntent
    \/ GetSwapStatus
    \/ CompleteCrossChainSwap
    \/ Tick

SpecRegistry == Init /\ [][NextRegistry]_vars


(***************************************************************************)
(* GET /api/swaps: the handler walks the registry and awaits getSwap for   *)
(* each entry, so contract transactions and other requests run between its *)
(* iterations.                                                              *)
(***************************************************************************)
\* The entries the iteration has still to visit.  The Map iterator is live:
\* an entry added while the handler waits is visited too.
unvisited(registry, swapsListed) ==
    {id \in SwapIds : registry[id] # NoSwap /\ ~swapsListed[id].listed}

\* The status update without the else-branch that reports a funded swap.
reconcile_NoFunded(updatedSwap, blockchainSwap) ==
    IF blockchainSwap.withdrawn
    THEN [updatedSwap EXCEPT !.status = "completed", !.completedAt = IF @ = -1 THEN now ELSE @]
    ELSE IF blockchainSwap.refunded
    THEN [updatedSwap EXCEPT !.status = "refunded", !.refundedAt = IF @ = -1 THEN now ELSE @]
    ELSE updatedSwap
\* The status update from the record getSwap answered.
reconcile(updatedSwap, blockchainSwap) ==
    IF blockchainSwap.withdrawn
    THEN [updatedSwap EXCEPT !.status = "completed", !.completedAt = IF @ = -1 THEN now ELSE @]
    ELSE IF blockchainSwap.refunded
    THEN [updatedSwap EXCEPT !.status = "refunded", !.refundedAt = IF @ = -1 THEN now ELSE @]
    ELSE IF blockchainSwap.amount > 0 /\ updatedSwap.status = "initiated"
    THEN [updatedSwap EXCEPT !.status = "funded"]
    ELSE updatedSwap

\* The handler up to its first await: the copy of the first entry is taken
\* and getSwap is called; with an empty registry the empty list is answered.
getSwaps ==
    /\ listing.phase # "awaiting"
    /\ IF unvisited(activeSwaps, NoListing.swaps) = {}
       THEN /\ listing' = [NoListing EXCEPT !.phase = "done"]
            /\ response' = ReplyFor("swaps", 200, "", "", "")
       ELSE /\ \E id \in unvisited(activeSwaps, NoListing.swaps) :
                  listing' = [NoListing EXCEPT !.phase = "awaiting", !.id = id,
                                               !.updatedSwap = activeSwaps[id]]
            /\ UNCHANGED response
    /\ UNCHANGED <<contractVars, now, activeSwaps, coordVars, utxo, utxoLeg>>

\* getSwap answers or throws (the id has no record, or the node is out of
\* reach): the copy is updated and stored, or kept as it is, and pushed; the
\* handler goes on to the next entry or answers the list.
getSwapsResume(reachable) ==
    /\ listing.phase = "awaiting"
    /\ LET id == listing.id
           answered == reachable /\ swaps[id].exists
           updatedSwap == IF answered THEN reconcile(listing.updatedSwap, swaps[id])
                          ELSE listing.updatedSwap
           registry == IF answered THEN [activeSwaps EXCEPT ![id] = updatedSwap]
                       ELSE activeSwaps
           pushed == [listing.swaps EXCEPT ![id] = Listed(updatedSwap.status, swaps[id], answered)]
       IN /\ activeSwaps' = registry
          /\ IF unvisited(registry, pushed) = {}
             THEN /\ listing' = [phase |-> "done", id |-> "", updatedSwap |-> NoSwap, swaps |-> pushed]
                  /\ response' = ReplyFor("swaps", 200, "", "", "")
             ELSE /\ \E next \in unvisited(registry, pushed) :
                        listing' = [phase |-> "awaiting", id |-> next,
                                    updatedSwap |-> registry[next], swaps |-> pushed]
                  /\ UNCHANGED response
    /\ UNCHANGED <<contractVars, now, coordVars, utxo, utxoLeg>>

GetSwaps == getSwaps
GetSwapsResume == \E reachable \in BOOLEAN : getSwapsResume(reachable)

\* A user locks ETH for the other one under the digest of secret 1.
ListInitiateSwap ==
    \E sender \in Users, _participant \in Users, _swapId \in SwapIds :
        /\ sender # _participant
        /\ initiateSwap(sender, 1, _swapId, _participant, ZeroAddress, 1, sha256(1), MaxTime)

\* The participant claims with the secret; the initiator takes the ETH back.
ListWithdraw ==
    \E _swapId \in SwapIds : withdraw(swaps[_swapId].participant, _swapId, 1)
ListRefund ==
    \E _swapId \in SwapIds : refund(swaps[_swapId].initiator, _swapId)

\* The registry entry of the same swap, as the form registers it, once.
ListRegister ==
    \E swapId \in SwapIds :
        /\ activeSwaps[swapId] = NoSwap
        /\ postEthToBtcInitiate(swapId, Hex(FALSE, sha256(1)), MaxTime, "btcAddress")

\* The UTXO side of a swap is reported as claimed.
ListComplete == postComplete("id1", Hex(FALSE, 1), "tx1")

\* The contract and the registry under the listing.
NextList ==
    \/ ListInitiateSwap
    \/ ListWithdraw
    \/ ListRefund
    \/ ListRegister
    \/ ListComplete
    \/ GetSwaps
    \/ GetSwapsResume
    \/ Tick

SpecList == Init /\ [][NextList]_vars

\* The registry entry of one swap id under the listing: the id is registered
\* through either initiate endpoint, again and again, its ETH leg is locked in
\* the contract under the same id, and any client asks for complete,
\* withdraw, refund and the list.
SettleId == "id1"
SettleRegister ==
    \E hashedSecret \in HashStrings, timelock \in (now + 1)..MaxTime :
        \/ postBtcToEthInitiate(SettleId, hashedSecret, timelock, "alice", "bob")
        \/ postEthToBtcInitiate(SettleId, hashedSecret, timelock, "btcAddress")
SettleInitiateSwap ==
    \E _timelock \in (now + 1)..MaxTime :
        initiateSwap("bob", 1, SettleId, "alice", ZeroAddress, 1, sha256(1), _timelock)
SettleComplete == \E secret \in {Hex(FALSE, 1), Hex(FALSE, 2)} : postComplete(SettleId, secret, "tx1")
SettleWithdraw == \E secret \in {Hex(TRUE, 1), Hex(FALSE, 1), Hex(FALSE, 2)} : postWithdraw(SettleId, secret)
SettleRefund == postRefund(SettleId)

NextSettle ==
    \/ SettleRegister
    \/ SettleInitiateSwap
    \/ SettleComplete
    \/ SettleWithdraw
    \/ SettleRefund
    \/ GetSwaps
    \/ GetSwapsResume
    \/ Tick

SpecSettle == Init /\ [][NextSettle]_vars

(***************************************************************************)
(* The UTXO libraries: BitcoinAtomicSwap and DogecoinAtomicSwap.  A script *)
(* is the sequence of its chunks, an opcode or the push of a Buffer.       *)
(***************************************************************************)
opcode(name) == [op |-> name, data |-> EmptyBuffer]
\* OP_0 and OP_1 .. OP_16; OP_FALSE is OP_0 and OP_TRUE is OP_1.
OP_N(n) == [op |-> "OP_N", data |-> Bytes(0, n)]
OP_TRUE == OP_N(1)
OP_FALSE == OP_N(0)
push(buffer) == [op |-> "push", data |-> buffer]

\* bitcoin.script's minimal push: an empty Buffer and a one-byte Buffer of
\* 1 .. 16 or 0x81 are written, and read back, as the opcode that pushes
\* that number.
asMinimalOP(buffer) ==
    IF buffer.len = 0 THEN OP_N(0)
    ELSE IF buffer.len = 1 /\ buffer.value \in 1..16 THEN OP_N(buffer.value)
    ELSE IF buffer.len = 1 /\ buffer.value = 129 THEN opcode("OP_1NEGATE")
    ELSE push(buffer)

\* bitcoin.script.compile and bitcoin.script.decompile.
compile(chunks) ==
    [i \in DOMAIN chunks |-> IF chunks[i].op = "push" THEN asMinimalOP(chunks[i].data) ELSE chunks[i]]
decompile(script) ==
    [i \in DOMAIN script |-> IF script[i].op = "push" THEN asMinimalOP(script[i].data) ELSE script[i]]
\* Buffer.isBuffer of a decompiled chunk.
isBuffer(chunk) == chunk.op = "push"

\* buffer.toString('hex').
toHex(buffer) == HexN(FALSE, buffer.len, buffer.value)

\* SHA-256 of a Buffer: 32 bytes, the digest of the secret the Buffer spells
\* when it holds 32 bytes and some other digest when it does not.
sha256Buffer(buffer) ==
    Bytes(32, sha256(IF buffer.len = 32 THEN buffer.value ELSE 1000 * (buffer.len + 1) + buffer.value))

\* timelockBuffer.writeUInt32LE(timelock, 0) on a Buffer of 4 bytes.
writeUInt32LE(n) == Bytes(4, n)
\* bitcoin.script.number.encode: the shortest little-endian bytes with a
\* sign bit, none for 0.
scriptNumSize(n) ==
    IF n = 0 THEN 0
    ELSE IF n < 128 THEN 1
    ELSE IF n < 32768 THEN 2
    ELSE IF n < 8388608 THEN 3
    ELSE 4
encode(n) == Bytes(scriptNumSize(n), n)

\* The chunks both libraries hand to compile.
htlcChunks(hashedSecretBuffer, timelockBuffer, recipientPubKeyBuffer, senderPubKeyBuffer) ==
    <<opcode("OP_IF"),
      opcode("OP_SHA256"), push(hashedSecretBuffer), opcode("OP_EQUALVERIFY"),
      push(recipientPubKeyBuffer), opcode("OP_CHECKSIG"),
      opcode("OP_ELSE"),
      push(timelockBuffer), opcode("OP_CHECKLOCKTIMEVERIFY"), opcode("OP_DROP"),
      push(senderPubKeyBuffer), opcode("OP_CHECKSIG"),
      opcode("OP_ENDIF")>>

\* BitcoinAtomicSwap.createAtomicSwapScript with public keys given as hex
\* strings: the whole compiled script.
atomicSwapScript(hashedSecret, timelock, recipientPubKey, senderPubKey) ==
    compile(htlcChunks(fromHex(hashedSecret), writeUInt32LE(timelock),
                       fromHex(recipientPubKey), fromHex(senderPubKey)))

\* DogecoinAtomicSwap.createHTLCScript.
createHTLCScript(hashedSecret, senderPubKey, recipientPubKey, timelock) ==
    compile(htlcChunks(fromHex(hashedSecret), encode(timelock),
                       fromHex(recipientPubKey), fromHex(senderPubKey)))

\* bitcoinjs-lib's default sequence number and the one that lets nLockTime
\* take effect.
SequenceFinal == "0xffffffff"
SequenceTimelock == "0xfffffffe"

RECURSIVE totalInput(_)
\* totalInput += utxo.value over the inputs.
totalInput(utxos) ==
    IF utxos = <<>> THEN 0 ELSE Head(utxos) + totalInput(Tail(utxos))

\* The sizes and the dust threshold createFundingTransaction computes with.
InputSize == 148
OutputSize == 34
Overhead == 10
DustThreshold == 546
estimatedSize(utxos) == Len(utxos) * InputSize + 2 * OutputSize + Overhead
fundingFee(utxos, feeRate) == estimatedSize(utxos) * feeRate

\* createFundingTransaction with the change output whenever change is
\* positive.
createFundingTransaction_NoDust(utxos, p2shAddress, amount, changeAddress, feeRate) ==
    LET change == totalInput(utxos) - amount - fundingFee(utxos, feeRate)
    IN [NoTx EXCEPT
          !.type = "psbt",
          !.ins = [i \in DOMAIN utxos |-> [value |-> utxos[i], sequence |-> SequenceFinal, script |-> <<>>]],
          !.outs = <<[address |-> p2shAddress, value |-> amount]>>
                   \o (IF change > 0
                       THEN <<[address |-> changeAddress, value |-> change]>>
                       ELSE <<>>)]
\* BitcoinAtomicSwap.createFundingTransaction: the unsigned transaction.
createFundingTransaction(utxos, p2shAddress, amount, changeAddress, feeRate) ==
    LET change == totalInput(utxos) - amount - fundingFee(utxos, feeRate)
    IN [NoTx EXCEPT
          !.type = "psbt",
          !.ins = [i \in DOMAIN utxos |-> [value |-> utxos[i], sequence |-> SequenceFinal, script |-> <<>>]],
          !.outs = <<[address |-> p2shAddress, value |-> amount]>>
                   \o (IF change > DustThreshold
                       THEN <<[address |-> changeAddress, value |-> change]>>
                       ELSE <<>>)]

\* The fee both spending transactions pay: 250 * 10.
SpendFee == 250 * 10
\* A signature made with a private key, and the public key of it.
signature(privKey) == Bytes(71, privKey)
publicKey(privKey) == HexN(FALSE, 33, privKey)

RECURSIVE byteLength(_)
\* The bytes of a compiled script.
byteLength(script) ==
    IF script = <<>> THEN 0
    ELSE 1 + Head(script).data.len + byteLength(Tail(script))

\* payments.p2sh({redeem: {input, output}}).input: the unlocking chunks and
\* then the push of the redeem script.
p2shInput(input, output) == input \o <<push(Bytes(byteLength(output), 0))>>

\* createWithdrawalTransaction whose unlocking script leaves the secret out.
createWithdrawalTransaction_NoSecret(script, secret, recipientAddress, amount, recipientPrivKey) ==
    [NoTx EXCEPT
       !.type = "transaction",
       !.ins = <<[value |-> amount, sequence |-> SequenceFinal,
                  script |-> p2shInput(compile(<<push(signature(recipientPrivKey)), OP_TRUE>>), script)]>>,
       !.outs = <<[address |-> recipientAddress, value |-> amount - SpendFee]>>]
\* BitcoinAtomicSwap.createWithdrawalTransaction.
createWithdrawalTransaction(script, secret, recipientAddress, amount, recipientPrivKey) ==
    [NoTx EXCEPT
       !.type = "transaction",
       !.ins = <<[value |-> amount, sequence |-> SequenceFinal,
                  script |-> p2shInput(compile(<<push(signature(recipientPrivKey)),
                                                 push(fromHex(secret)), OP_TRUE>>), script)]>>,
       !.outs = <<[address |-> recipientAddress, value |-> amount - SpendFee]>>]

\* createRefundTransaction that leaves the input's sequence number final.
createRefundTransaction_FinalSequence(script, senderAddress, amount, senderPrivKey, timelock) ==
    [NoTx EXCEPT
       !.type = "transaction",
       !.locktime = timelock,
       !.ins = <<[value |-> amount, sequence |-> SequenceFinal,
                  script |-> p2shInput(compile(<<push(signature(senderPrivKey)), OP_FALSE>>), script)]>>,
       !.outs = <<[address |-> senderAddress, value |-> amount - SpendFee]>>]
\* BitcoinAtomicSwap.createRefundTransaction.
createRefundTransaction(script, senderAddress, amount, senderPrivKey, timelock) ==
    [NoTx EXCEPT
       !.type = "transaction",
       !.locktime = timelock,
       !.ins = <<[value |-> amount, sequence |-> SequenceTimelock,
                  script |-> p2shInput(compile(<<push(signature(senderPrivKey)), OP_FALSE>>), script)]>>,
       !.outs = <<[address |-> senderAddress, value |-> amount - SpendFee]>>]

\* BitcoinAtomicSwap.extractSecretFromTx: the secret returned, or the error
\* thrown.
extractSecretFromTx(tx) ==
    LET script == IF tx.ins = <<>> THEN <<>> ELSE decompile(tx.ins[1].script)
    IN IF tx.ins = <<>> THEN [error |-> "TypeError", secret |-> Undefined]
       ELSE IF Len(script) >= 2 /\ isBuffer(script[2]) /\ script[2].data.len = 32
       THEN [error |-> "", secret |-> toHex(script[2].data)]
       ELSE [error |-> "Secret not found in transaction", secret |-> Undefined]

\* BitcoinAtomicSwap.verifySecret: the hex digest of the decoded secret is
\* compared, as a string, with the hash string given.
verifySecret(secret, hashedSecret) ==
    toHex(sha256Buffer(fromHex(secret))) = hashedSecret

\* BitcoinAtomicSwap.generateSecret for the random bytes s.
bitcoinGenerateSecret(s) ==
    [secret |-> toHex(Bytes(32, s)), hashedSecret |-> toHex(sha256Buffer(Bytes(32, s)))]

\* DogecoinAtomicSwap.verifySecret comparing the bytes the hash string
\* names, prefix or not.
dogeVerifySecret_Bytes(secret, expectedHash) ==
    sha256Buffer(fromHex(secret)) = Bytes(expectedHash.len, expectedHash.bytes)
\* DogecoinAtomicSwap.verifySecret: hash.toString('hex') === expectedHash.
dogeVerifySecret(secret, expectedHash) ==
    toHex(sha256Buffer(fromHex(secret))) = expectedHash
\* DogecoinAtomicSwap.generateSecret for the random bytes s.
dogeGenerateSecret(s) ==
    [secret |-> toHex(Bytes(32, s)), hashedSecret |-> toHex(sha256Buffer(Bytes(32, s)))]

\* The Dogecoin placeholders: plain objects.
dogeCreateWithdrawalTransaction(amount, recipientAddress, secret) ==
    [NoTx EXCEPT !.type = "withdrawal", !.secret = secret,
                 !.outs = <<[address |-> recipientAddress, value |-> amount]>>]
dogeCreateRefundTransaction(amount, senderAddress) ==
    [NoTx EXCEPT !.type = "refund",
                 !.outs = <<[address |-> senderAddress, value |-> amount]>>]
\* DogecoinAtomicSwap.extractSecretFromTx: tx.secret || null.
dogeExtractSecretFromTx(tx) ==
    IF tx.secret = Undefined \/ tx.secret = HexN(FALSE, 0, 0)
    THEN [returned |-> "null", secret |-> Undefined]
    ELSE [returned |-> "string", secret |-> tx.secret]

\* The strings and numbers callers hand to the libraries: hashes and secrets
\* as bare hex of 32 bytes, with the "0x" prefix, of 16 bytes and not hex at
\* all; compressed public keys and a 20-byte string; timelocks from 0 to a
\* Unix time in seconds; coin values in satoshis.
LibHashes == {HexN(FALSE, 32, sha256(1)), HexN(TRUE, 32, sha256(1)), HexN(FALSE, 16, sha256(1)), Malformed}
LibSecrets == {HexN(FALSE, 32, 1), HexN(FALSE, 32, 2), HexN(TRUE, 32, 1), HexN(FALSE, 16, 1)}
LibKeys == {publicKey(1), publicKey(2), HexN(FALSE, 20, 1)}
PrivKeys == {1, 2}
Locktimes == {0, 1, 500, 1700000000}
UtxoValues == {1000, 5000}
MaxInputs == 2
UtxoLists == UNION {[1..n -> UtxoValues] : n \in 1..MaxInputs}
FundingAmounts == {600, 3000, 20000}
FeeRates == {1, 10}
\* The redeem script the spending transactions are built for.
EscrowScript == atomicSwapScript(HexN(FALSE, 32, sha256(1)), 1700000000, publicKey(1), publicKey(2))

\* The two libraries.
Chains == {"bitcoin", "dogecoin"}

\* A call with its arguments, nothing returned yet.
Called(op, chain, args) == [NoCall EXCEPT !.op = op, !.chain = chain, !.args = args]

CreateAtomicSwapScript ==
    /\ \E hashedSecret \in LibHashes, timelock \in Locktimes, recipientPubKey \in LibKeys, senderPubKey \in LibKeys :
          utxo' = [Called("createAtomicSwapScript", "bitcoin",
                          [NoArgs EXCEPT !.hashedSecret = hashedSecret, !.timelock = timelock,
                                         !.recipientPubKey = recipientPubKey,
                                         !.senderPubKey = senderPubKey])
                   EXCEPT !.returned = "script",
                          !.script = atomicSwapScript(hashedSecret, timelock, recipientPubKey, senderPubKey)]
    /\ UNCHANGED <<contractVars, now, backendVars, coordVars, listing, utxoLeg>>

CreateHTLCScript ==
    /\ \E hashedSecret \in LibHashes, timelock \in Locktimes, recipientPubKey \in LibKeys, senderPubKey \in LibKeys :
          utxo' = [Called("createHTLCScript", "dogecoin",
                          [NoArgs EXCEPT !.hashedSecret = hashedSecret, !.timelock = timelock,
                                         !.recipientPubKey = recipientPubKey,
                                         !.senderPubKey = senderPubKey])
                   EXCEPT !.returned = "script",
                          !.script = createHTLCScript(hashedSecret, senderPubKey, recipientPubKey, timelock)]
    /\ UNCHANGED <<contractVars, now, backendVars, coordVars, listing, utxoLeg>>

CreateFundingTransaction ==
    /\ \E utxos \in UtxoLists, amount \in FundingAmounts, feeRate \in FeeRates :
          utxo' = [Called("createFundingTransaction", "bitcoin",
                          [NoArgs EXCEPT !.utxos = utxos, !.amount = amount, !.feeRate = feeRate])
                   EXCEPT !.returned = "psbt",
                          !.tx = createFundingTransaction(utxos, "p2shAddress", amount, "changeAddress", feeRate)]
    /\ UNCHANGED <<contractVars, now, backendVars, coordVars, listing, utxoLeg>>

CreateWithdrawalTransaction ==
    /\ \E secret \in LibSecrets, amount \in FundingAmounts \ {600}, recipientPrivKey \in PrivKeys :
          utxo' = [Called("createWithdrawalTransaction", "bitcoin",
                          [NoArgs EXCEPT !.secret = secret, !.amount = amount, !.privKey = recipientPrivKey])
                   EXCEPT !.returned = "transaction",
                          !.script = EscrowScript,
                          !.tx = createWithdrawalTransaction(EscrowScript, secret, "recipientAddress", amount, recipientPrivKey)]
    /\ UNCHANGED <<contractVars, now, backendVars, coordVars, listing, utxoLeg>>

CreateRefundTransaction ==
    /\ \E amount \in FundingAmounts \ {600}, senderPrivKey \in PrivKeys, timelock \in Locktimes :
          utxo' = [Called("createRefundTransaction", "bitcoin",
                          [NoArgs EXCEPT !.amount = amount, !.privKey = senderPrivKey, !.timelock = timelock])
                   EXCEPT !.returned = "transaction",
                          !.script = EscrowScript,
                          !.tx = createRefundTransaction(EscrowScript, "senderAddress", amount, senderPrivKey, timelock)]
    /\ UNCHANGED <<contractVars, now, backendVars, coordVars, listing, utxoLeg>>

\* Transactions the library did not build: a pay-to-public-key-hash spend, a
\* spend whose second chunk is 32 bytes of data with no branch selector, one
\* whose second chunk is 32 bytes under the refund selector, and one with a
\* single chunk.
ForeignScripts ==
    {<<push(signature(1)), push(Bytes(33, 1))>>,
     <<push(signature(1)), push(Bytes(32, 2))>>,
     <<push(signature(1)), push(Bytes(32, 2)), OP_FALSE, push(Bytes(byteLength(EscrowScript), 0))>>,
     <<push(signature(1))>>}
ForeignTx(script) ==
    [NoTx EXCEPT !.type = "transaction",
                 !.ins = <<[value |-> 3000, sequence |-> SequenceFinal, script |-> script]>>]

\* extractSecretFromTx on the transaction the library built last, or on a
\* transaction from elsewhere.
ExtractSecretFromTx ==
    /\ \E tx \in {ForeignTx(script) : script \in ForeignScripts}
                  \cup (IF utxo.tx.type = "transaction" THEN {utxo.tx} ELSE {}) :
          LET built == tx = utxo.tx
              extracted == extractSecretFromTx(tx)
          IN utxo' = [(IF built THEN utxo ELSE [NoCall EXCEPT !.tx = tx])
                      EXCEPT !.op = "extractSecretFromTx",
                             !.chain = "bitcoin",
                             !.returned = IF extracted.error = "" THEN "string" ELSE "thrown",
                             !.error = extracted.error,
                             !.secret = extracted.secret]
    /\ UNCHANGED <<contractVars, now, backendVars, coordVars, listing, utxoLeg>>

DogeCreateWithdrawalTransaction ==
    /\ \E secret \in LibSecrets \cup {Undefined}, amount \in FundingAmounts :
          utxo' = [Called("createWithdrawalTransaction", "dogecoin",
                          [NoArgs EXCEPT !.secret = secret, !.amount = amount])
                   EXCEPT !.returned = "object",
                          !.tx = dogeCreateWithdrawalTransaction(amount, "recipientAddress", secret)]
    /\ UNCHANGED <<contractVars, now, backendVars, coordVars, listing, utxoLeg>>

DogeCreateRefundTransaction ==
    /\ \E amount \in FundingAmounts :
          utxo' = [Called("createRefundTransaction", "dogecoin", [NoArgs EXCEPT !.amount = amount])
                   EXCEPT !.returned = "object",
                          !.tx = dogeCreateRefundTransaction(amount, "senderAddress")]
    /\ UNCHANGED <<contractVars, now, backendVars, coordVars, listing, utxoLeg>>

DogeExtractSecretFromTx ==
    /\ utxo.chain = "dogecoin"
    /\ utxo.returned = "object"
    /\ utxo' = [utxo EXCEPT !.op = "extractSecretFromTx",
                            !.returned = dogeExtractSecretFromTx(utxo.tx).returned,
                            !.secret = dogeExtractSecretFromTx(utxo.tx).secret]
    /\ UNCHANGED <<contractVars, now, backendVars, coordVars, listing, utxoLeg>>

\* generateSecret of either library, then verifySecret of either library
\* with a secret and the hash of the pair as generateSecret returned it or
\* as /api/generate-secret hands it out, with the "0x" prefix.
VerifySecret ==
    /\ \E s \in Secrets, secret \in LibSecrets, prefixed \in BOOLEAN, generator \in Chains, chain \in Chains :
          LET pair == IF generator = "bitcoin" THEN bitcoinGenerateSecret(s) ELSE dogeGenerateSecret(s)
              hashedSecret == HexN(prefixed, pair.hashedSecret.len, pair.hashedSecret.bytes)
          IN utxo' = [Called("verifySecret", chain,
                             [NoArgs EXCEPT !.secret = secret, !.hashedSecret = hashedSecret])
                      EXCEPT !.returned = "boolean",
                             !.generator = generator,
                             !.secret = pair.secret,
                             !.verified = IF chain = "bitcoin" THEN verifySecret(secret, hashedSecret)
                                          ELSE dogeVerifySecret(secret, hashedSecret)]
    /\ UNCHANGED <<contractVars, now, backendVars, coordVars, listing, utxoLeg>>

\* The two libraries under any sequence of calls.
NextUtxo ==
    \/ CreateAtomicSwapScript
    \/ CreateHTLCScript
    \/ CreateFundingTransaction
    \/ CreateWithdrawalTransaction
    \/ CreateRefundTransaction
    \/ ExtractSecretFromTx
    \/ DogeCreateWithdrawalTransaction
    \/ DogeCreateRefundTransaction
    \/ DogeExtractSecretFromTx
    \/ VerifySecret

SpecUtxo == Init /\ [][NextUtxo]_vars

(***************************************************************************)
(* The four initiate endpoints under complete requests and under requests  *)
(* that lack a parameter.  A missing timelock is 0, as it is falsy.         *)
(***************************************************************************)
\* The methods class DogecoinAtomicSwap defines.
DogecoinAtomicSwapMethods ==
    {"generateSecret", "verifySecret", "createHTLCScript", "generateP2SHAddress",
     "base58Encode", "dogeToDogeoshis", "dogeoshisToDoge", "createFundingTransaction",
     "createWithdrawalTransaction", "createRefundTransaction", "extractSecretFromTx",
     "getScriptHash", "createKeyPair", "isValidAddress"}

\* Network testnet of DOGECOIN_NETWORKS: the version byte of a P2SH address.
DogecoinScriptHash == 196
\* DogecoinAtomicSwap.generateP2SHAddress: the version byte and the hash of
\* the script, named by the script it is the hash of.
generateP2SHAddress(script) == [version |-> DogecoinScriptHash, script |-> script]

\* The entry POST /api/swap/eth-to-doge/initiate stores.
ethToDogeEntry(hashedSecret, timelock) ==
    [NoSwap EXCEPT !.type = "eth-to-doge", !.hashedSecret = hashedSecret,
                   !.timelock = timelock, !.status = "initiated"]

\* POST /api/swap/eth-to-doge/initiate.
postEthToDogeInitiate(swapId, hashedSecret, timelock, dogeAddress) ==
    IF hashedSecret = Undefined \/ timelock = 0 \/ dogeAddress = "undefined"
    THEN /\ response' = ReplyFor("eth-to-doge/initiate", 400, "Missing required parameters", swapId, "")
         /\ UNCHANGED <<contractVars, now, activeSwaps, coordVars, listing, utxo, utxoLeg>>
    ELSE /\ activeSwaps' = [activeSwaps EXCEPT ![swapId] = ethToDogeEntry(hashedSecret, timelock)]
         /\ legs' = [legs EXCEPT ![swapId] = IF @ < MaxLegs THEN @ + 1 ELSE @]
         /\ response' = ReplyFor("eth-to-doge/initiate", 200, "", swapId, "")
         /\ utxoLeg' = [utxoLeg EXCEPT ![swapId] = NoSettlement]
         /\ UNCHANGED <<contractVars, now, form, fusionSwaps, listing, utxo>>

\* POST /api/swap/doge-to-eth/initiate.  The handler calls
\* dogecoinSwap.createAtomicSwapScript and dogecoinSwap.createP2SHAddress; a
\* call of a method the class does not define throws a TypeError, which the
\* handler answers with 500.
postDogeToEthInitiate(swapId, hashedSecret, timelock, dogeSenderPubKey, dogeRecipientPubKey) ==
    IF "createAtomicSwapScript" \notin DogecoinAtomicSwapMethods
    THEN /\ response' = ReplyFor("doge-to-eth/initiate", 500, "dogecoinSwap.createAtomicSwapScript is not a function", swapId, "")
         /\ UNCHANGED <<contractVars, now, activeSwaps, coordVars, listing, utxo, utxoLeg>>
    ELSE IF hashedSecret = Undefined \/ dogeSenderPubKey = Undefined \/ dogeRecipientPubKey = Undefined
    THEN /\ response' = ReplyFor("doge-to-eth/initiate", 500, "TypeError", swapId, "")
         /\ UNCHANGED <<contractVars, now, activeSwaps, coordVars, listing, utxo, utxoLeg>>
    ELSE IF "createP2SHAddress" \notin DogecoinAtomicSwapMethods
    THEN /\ response' = ReplyFor("doge-to-eth/initiate", 500, "dogecoinSwap.createP2SHAddress is not a function", swapId, "")
         /\ UNCHANGED <<contractVars, now, activeSwaps, coordVars, listing, utxo, utxoLeg>>
    ELSE LET script == createHTLCScript(hashedSecret, dogeSenderPubKey, dogeRecipientPubKey, timelock) IN
         /\ activeSwaps' = [activeSwaps EXCEPT ![swapId] =
                [NoSwap EXCEPT !.type = "doge-to-eth", !.hashedSecret = hashedSecret,
                               !.timelock = timelock,
                               !.dogeSwapAddress = generateP2SHAddress(script),
                               !.dogeScript = script,
                               !.status = "initiated"]]
         /\ legs' = [legs EXCEPT ![swapId] = IF @ < MaxLegs THEN @ + 1 ELSE @]
         /\ response' = ReplyFor("doge-to-eth/initiate", 200, "", swapId, "")
         /\ utxoLeg' = [utxoLeg EXCEPT ![swapId] = NoSettlement]
         /\ UNCHANGED <<contractVars, now, form, fusionSwaps, listing, utxo>>

\* The requests: each parameter is there or is left out.
InitiateIds == {"id1", "id2"}
InitiateHashes == {Hex(TRUE, sha256(1)), Undefined}
InitiateTimelocks == {0, MaxTime}
InitiateAddresses == {"address", "undefined"}
InitiateNames == {"alice", "undefined"}
InitiateKeys == {publicKey(1), Undefined}

InitiateEthToBtc ==
    \E swapId \in InitiateIds, hashedSecret \in InitiateHashes, timelock \in InitiateTimelocks, btcAddress \in InitiateAddresses :
        postEthToBtcInitiate(swapId, hashedSecret, timelock, btcAddress)
InitiateBtcToEth ==
    \E swapId \in InitiateIds, hashedSecret \in InitiateHashes, timelock \in InitiateTimelocks, btcSenderPubKey \in InitiateNames :
        postBtcToEthInitiate(swapId, hashedSecret, timelock, btcSenderPubKey, "bob")
InitiateEthToDoge ==
    \E swapId \in InitiateIds, hashedSecret \in InitiateHashes, timelock \in InitiateTimelocks, dogeAddress \in InitiateAddresses :
        postEthToDogeInitiate(swapId, hashedSecret, timelock, dogeAddress)
InitiateDogeToEth ==
    \E swapId \in InitiateIds, hashedSecret \in InitiateHashes, timelock \in InitiateTimelocks, dogeSenderPubKey \in InitiateKeys :
        postDogeToEthInitiate(swapId, hashedSecret, timelock, dogeSenderPubKey, publicKey(2))

NextInitiate ==
    \/ InitiateEthToBtc
    \/ InitiateBtcToEth
    \/ InitiateEthToDoge
    \/ InitiateDogeToEth
    \/ Tick

SpecInitiate == Init /\ [][NextInitiate]_vars

(***************************************************************************)
(* The contract with time that keeps advancing and an initiator who keeps  *)
(* asking for the refund of an expired record, among the calls of anyone.  *)
(***************************************************************************)
\* A user locks ETH for the other one under the digest of secret 1.
LiveInitiateSwap ==
    \E sender \in Users, _participant \in Users, _swapId \in SwapIds, _timelock \in Times :
        /\ sender # _participant
        /\ initiateSwap(sender, 1, _swapId, _participant, ZeroAddress, 1, sha256(1), _timelock)

\* The initiator's refund call that passes every guard.
InitiatorRefund(_swapId) ==
    /\ refundRevert(swaps[_swapId].initiator, _swapId) = ""
    /\ refund(swaps[_swapId].initiator, _swapId)

NextLive == LiveInitiateSwap \/ Withdraw \/ Refund \/ Tick

SpecLive ==
    /\ Init
    /\ [][NextLive]_vars
    /\ WF_vars(Tick)
    /\ \A _swapId \in SwapIds : WF_vars(InitiatorRefund(_swapId))

(***************************************************************************)
(* Properties of the swap across both ledgers.                             *)
(***************************************************************************)
\* Two legs locked under the same hashed secret.
SameSwap(c, b) ==
    /\ swaps[c].exists
    /\ activeSwaps[b] # NoSwap
    /\ activeSwaps[b].type \in {"btc-to-eth", "doge-to-eth"}
    /\ activeSwaps[b].hashedSecret.hex
    /\ activeSwaps[b].hashedSecret.bytes = swaps[c].hashedSecret

\* C1: for two legs locked under the same hashed secret, no sequence of
\* initiate, withdraw, refund and clock advances reaches a state in which one
\* leg is claimed and the other refunded.
C1_Atomicity ==
    \A c, b \in SwapIds :
        SameSwap(c, b) =>
            /\ ~(swaps[c].withdrawn /\ activeSwaps[b].status = "refunded")
            /\ ~(swaps[c].refunded /\ activeSwaps[b].status = "completed")

(***************************************************************************)
(* Properties of the escrow contract.                                      *)
(***************************************************************************)
AlreadySettled == {"Already withdrawn", "Already refunded"}

\* C2: in every reachable state and for every swap id, withdrawn and
\* refunded are never both true.
C2_FlagsExclusive ==
    \A id \in SwapIds : ~(swaps[id].withdrawn /\ swaps[id].refunded)

\* Both terminal states occur, the withdrawn record past its timelock with
\* its initiator having just asked for a refund.
C2_Witness ==
    \E i, j \in SwapIds :
        /\ swaps[i].withdrawn /\ swaps[j].refunded
        /\ now >= swaps[i].timelock
        /\ result = Done("refund", "Already withdrawn")

\* C3: once withdrawn (or refunded) is true it stays true whatever is called
\* afterwards, and no other field of a record changes after initiation.
C3_Monotonic ==
    [][\A id \in SwapIds :
          /\ swaps[id].withdrawn => swaps'[id].withdrawn
          /\ swaps[id].refunded => swaps'[id].refunded
          /\ swaps[id].exists =>
                /\ swaps'[id].exists
                /\ swaps'[id].initiator = swaps[id].initiator
                /\ swaps'[id].participant = swaps[id].participant
                /\ swaps'[id].token = swaps[id].token
                /\ swaps'[id].amount = swaps[id].amount
                /\ swaps'[id].hashedSecret = swaps[id].hashedSecret
                /\ swaps'[id].timelock = swaps[id].timelock]_vars

\* A settled record on which initiateSwap was called again.
C3_Witness ==
    \E id \in SwapIds :
        /\ swaps[id].withdrawn
        /\ result = Done("initiateSwap", "Swap already exists")

C6_SettledRejects ==
    [][\A sender \in Users, id \in SwapIds :
          /\ \A s \in Secrets :
                (swaps[id].withdrawn /\ withdraw(sender, id, s)) =>
                    /\ result' = Done("withdraw", "Already withdrawn")
                    /\ UNCHANGED <<swaps, balances, revealed>>
          /\ (swaps[id].withdrawn /\ refund(sender, id)) =>
                /\ result' = Done("refund", "Already withdrawn")
                /\ UNCHANGED <<swaps, balances, revealed>>
          /\ (swaps[id].refunded /\ refund(sender, id)) =>
                /\ result' = Done("refund", "Already refunded")
                /\ UNCHANGED <<swaps, balances, revealed>>]_vars

\* A second withdrawal with the right secret, by the participant and before
\* the timelock, was turned down.
C6_Witness ==
    /\ result = Done("withdraw", "Already withdrawn")
    /\ \E id \in SwapIds :
          /\ swaps[id].withdrawn /\ ~swaps[id].refunded
          /\ now < swaps[id].timelock


\* C7 as stated: once a record has been refunded after its timelock, a
\* withdraw with the right secret fails with "Timelock expired".
C7_Original ==
    [][\A sender \in Users, id \in SwapIds, s \in Secrets :
          (/\ swaps[id].refunded
           /\ sha256(s) = swaps[id].hashedSecret
           /\ withdraw(sender, id, s)) =>
              result' = Done("withdraw", "Timelock expired")]_vars

\* C7: once a record has been refunded after its timelock, a withdraw with
\* the right secret fails with "Already refunded" and changes nothing;
\* "Timelock expired" is what the same call returns on an expired record
\* that has not been refunded.
C7_RefundedThenWithdraw ==
    [][\A sender \in Users, id \in SwapIds, s \in Secrets :
          (/\ swaps[id].exists
           /\ ~swaps[id].withdrawn
           /\ now >= swaps[id].timelock
           /\ sha256(s) = swaps[id].hashedSecret
           /\ withdraw(sender, id, s)) =>
              /\ result' = Done("withdraw",
                                IF swaps[id].refunded THEN "Already refunded"
                                ELSE "Timelock expired")
              /\ UNCHANGED <<swaps, balances, revealed>>]_vars

\* The participant tried the right secret on a refunded record.
C7_Witness ==
    /\ result = Done("withdraw", "Already refunded")
    /\ \E id \in SwapIds :
          /\ swaps[id].refunded
          /\ now >= swaps[id].timelock
          /\ swaps[id].hashedSecret \in {sha256(s) : s \in Secrets}

\* C8: on an open record, withdraw with a secret other than the one whose
\* hash is locked fails with "Invalid secret", whoever calls and whatever the
\* time, and changes no record and no balance.
C8_WrongSecret ==
    [][\A sender \in Users, id \in SwapIds, s, t \in Secrets :
          (/\ Open(id)
           /\ swaps[id].hashedSecret = sha256(s)
           /\ t # s
           /\ withdraw(sender, id, t)) =>
              /\ result' = Done("withdraw", "Invalid secret")
              /\ UNCHANGED <<swaps, balances, revealed>>]_vars

\* A wrong secret was turned down on a record that is open and past its
\* timelock.
C8_Witness ==
    /\ result = Done("withdraw", "Invalid secret")
    /\ \E id \in SwapIds : Open(id) /\ now >= swaps[id].timelock

\* C9: initiateSwap on an id that has a record fails with "Swap already
\* exists" and changes no record and no balance; a settled record stays
\* settled.
C9_DuplicateSwap ==
    [][\A id \in SwapIds :
          /\ \A sender \in Users, a \in DuplicateArgs :
                (/\ swaps[id].exists
                 /\ initiateSwap(sender, a.value, id, a.participant, a.token,
                                 a.amount, a.hashedSecret, a.timelock)) =>
                    /\ result' = Done("initiateSwap", "Swap already exists")
                    /\ UNCHANGED <<swaps, balances, revealed>>
          /\ (swaps[id].withdrawn \/ swaps[id].refunded) =>
                /\ swaps'[id].withdrawn = swaps[id].withdrawn
                /\ swaps'[id].refunded = swaps[id].refunded]_vars

\* A duplicate initiation was turned down while one record is settled and
\* the other open.
C9_Witness ==
    /\ result = Done("initiateSwap", "Swap already exists")
    /\ \E i, j \in SwapIds : swaps[i].refunded /\ Open(j)

\* The calls C10 is about: an ETH call in which each of participant, amount,
\* timelock and hashedSecret is either valid or invalid, the invalid
\* timelock being the current time.
C10_Probes ==
    [value : {1}, participant : {ZeroAddress, "bob"}, token : {ZeroAddress},
     amount : Amounts, hashedSecret : {ZeroHash, sha256(1)},
     timelock : {now, MaxTime + 1}]

C10_Expected(a) ==
    IF a.participant = ZeroAddress THEN "Invalid participant"
    ELSE IF a.amount = 0 THEN "Amount must be greater than 0"
    ELSE IF a.timelock <= now THEN "Timelock must be in the future"
    ELSE IF a.hashedSecret = ZeroHash THEN "Invalid hashed secret"
    ELSE "ok"

\* C10: a rejected initiateSwap creates no record and moves no funds; a
\* record is only ever created with a non-zero participant, a positive
\* amount, a timelock strictly later than the current time and a non-zero
\* hashedSecret; and on an unused id the call is rejected with the error of
\* the first invalid argument (participant, amount, timelock, hashedSecret),
\* a timelock equal to the current time being invalid.
C10_InvalidArguments ==
    [][/\ (result'.op = "initiateSwap" /\ result'.status # "ok") =>
             UNCHANGED <<swaps, balances, revealed>>
       /\ \A id \in SwapIds :
             (~swaps[id].exists /\ swaps'[id].exists) =>
                 /\ swaps'[id].participant # ZeroAddress
                 /\ swaps'[id].amount > 0
                 /\ swaps'[id].timelock > now
                 /\ swaps'[id].hashedSecret # ZeroHash
       /\ \A id \in SwapIds :
             (~swaps[id].exists /\ result'.op = "initiateSwap") =>
                \A sender \in Users, a \in C10_Probes :
                   initiateSwap(sender, a.value, id, a.participant, a.token,
                                a.amount, a.hashedSecret, a.timelock) =>
                      result' = Done("initiateSwap", C10_Expected(a))]_vars

\* A call whose timelock equals the current time was turned down.
C10_Witness ==
    /\ result = Done("initiateSwap", "Timelock must be in the future")
    /\ now > 0
    /\ \E id \in SwapIds : ~swaps[id].exists

\* C11 as stated: in every state each view answers true exactly when the
\* mutating call with the same arguments succeeds, whoever makes the call.
C11_Original ==
    \A sender \in Users, id \in SwapIds, s \in Secrets :
        /\ isWithdrawable(id, s) <=> (withdrawRevert(sender, id, s) = "")
        /\ isRefundable(id) <=> (refundRevert(sender, id) = "")

\* C11: in every state isWithdrawable(id, secret) is true exactly when
\* withdraw(id, secret) called by the record's participant succeeds, and
\* isRefundable(id) is true exactly when refund(id) called by the record's
\* initiator succeeds; for any other caller the call is rejected as
\* unauthorized although the view answers true.
C11_ViewsAgree ==
    \A id \in SwapIds, s \in Secrets :
        /\ isWithdrawable(id, s)
              <=> (withdrawRevert(swaps[id].participant, id, s) = "")
        /\ isRefundable(id) <=> (refundRevert(swaps[id].initiator, id) = "")
        /\ \A sender \in Users :
              /\ withdrawRevert(sender, id, s) = "" => isWithdrawable(id, s)
              /\ refundRevert(sender, id) = "" => isRefundable(id)
              /\ (isWithdrawable(id, s) /\ sender # swaps[id].participant)
                    => withdrawRevert(sender, id, s)
                          = "Only participant can withdraw"
              /\ (isRefundable(id) /\ sender # swaps[id].initiator)
                    => refundRevert(sender, id) = "Only initiator can refund"

\* A withdraw by someone other than the participant was just rejected while
\* a record is withdrawable and another record is refundable.
C11_Witness ==
    \E id, other \in SwapIds, s \in Secrets :
        /\ isWithdrawable(id, s)
        /\ swaps[id].participant # swaps[id].initiator
        /\ isRefundable(other)
        /\ result = Done("withdraw", "Only participant can withdraw")

\* What the Open records of asset tok lock in total.
Escrowed(sw, tok) ==
    LET amt(id) == IF sw[id].exists /\ ~sw[id].withdrawn /\ ~sw[id].refunded /\ sw[id].token = tok
                   THEN sw[id].amount ELSE 0
    IN amt("id1") + amt("id2")

\* What the records paid out so far to holder h in asset tok.
PaidTo(sw, tok, h) ==
    LET amt(id) == IF \/ sw[id].withdrawn /\ sw[id].participant = h /\ sw[id].token = tok
                      \/ sw[id].refunded /\ sw[id].initiator = h /\ sw[id].token = tok
                   THEN sw[id].amount ELSE 0
    IN amt("id1") + amt("id2")

\* What holder h locked so far in asset tok.
LockedBy(sw, tok, h) ==
    LET amt(id) == IF sw[id].exists /\ sw[id].initiator = h /\ sw[id].token = tok
                   THEN sw[id].amount ELSE 0
    IN amt("id1") + amt("id2")

\* The contract holds of each asset exactly what its Open records lock.
C12_Conserved ==
    \A tok \in Tokens : balances[tok][ContractAddress] = Escrowed(swaps, tok)

\* C12: in every reachable state, also while a recipient's code runs inside
\* a payout, the contract holds of each asset the sum of the amounts of its
\* Open records, and each user holds its initial funds minus what it locked
\* plus what records paid it: every record pays its amount once, by its own
\* withdraw to the participant or its own refund to the initiator.
C12_EscrowConservation ==
    /\ C12_Conserved
    /\ \A tok \in Tokens, u \in Users :
          balances[tok][u] = InitialFunds[u] - LockedBy(swaps, tok, u) + PaidTo(swaps, tok, u)

\* The recipient of a payout called back into the contract and was turned
\* away while another record in the same asset is still Open.
C12_Witness ==
    /\ frame.entered
    /\ result.status = "ReentrancyGuard: reentrant call"
    /\ \E id \in SwapIds :
          /\ Open(id)
          /\ id # frame.swapId
          /\ swaps[id].token = swaps[frame.swapId].token

\* C13: a secret is revealed for an id only by a successful withdraw: every
\* reveal belongs to a record that is withdrawn and not refunded, and the
\* revealed secret hashes to that record's hashedSecret; an Open or Refunded
\* record has no reveal.
C13_RevealOnlyByWithdraw ==
    /\ \A r \in revealed :
          /\ swaps[r[1]].exists
          /\ swaps[r[1]].withdrawn
          /\ ~swaps[r[1]].refunded
          /\ sha256(r[2]) = swaps[r[1]].hashedSecret
    /\ \A id \in SwapIds :
          (~frame.entered /\ swaps[id].withdrawn)
              => \E s \in Secrets : <<id, s>> \in revealed

\* A secret is revealed for one record while another record was refunded.
C13_Witness ==
    \E id, other \in SwapIds, s \in Secrets :
        /\ <<id, s>> \in revealed
        /\ swaps[other].refunded
        /\ swaps[other].hashedSecret = sha256(s)

\* The answers of a withdraw or refund that was rejected by a guard.
GuardErrors ==
    {"Swap does not exist", "Already withdrawn", "Already refunded", "Invalid secret", "Timelock expired", "Timelock not expired", "Only participant can withdraw", "Only initiator can refund"}

\* C14: a withdraw or refund that is rejected (unknown id, already settled,
\* expired, not yet expired, invalid secret, unauthorized caller) changes no
\* record and no balance and reveals nothing; every withdraw and refund
\* either succeeds or is rejected with one of these errors.
C14_RejectedNoEffect ==
    [][(result' # result /\ result'.op \in {"withdraw", "refund"})
         => /\ result'.status \in GuardErrors \cup {"ok"}
            /\ result'.status \in GuardErrors
                  => UNCHANGED <<swaps, balances, revealed>>
            /\ result'.status = "ok"
                  => \E id \in SwapIds : Open(id) /\ ~Open(id)']_vars

\* A refund by someone other than the initiator was just rejected on an
\* expired Open record.
C14_Witness ==
    /\ result = Done("refund", "Only initiator can refund")
    /\ \E id \in SwapIds : Open(id) /\ now >= swaps[id].timelock

(***************************************************************************)
(* Properties of the coordinator.                                          *)
(***************************************************************************)
\* The step that locks the counter-leg under id: a submission of the form
\* while it accepts a swap.
CounterLocked(id) == form.isAcceptingSwap /\ legs'[id] = legs[id] + 1

\* C15: a swap enters CounterLocked only if the timelock of the counter-leg
\* is strictly earlier than the timelock of the leg being accepted (the
\* least that isAtomicitySafe asks for, whatever the safety margin is).
C15_CounterLockedSafe ==
    [][\A id \in SwapIds :
          CounterLocked(id)
             => activeSwaps'[id].timelock < form.acceptedSwap.timelock]_vars

\* A counter-swap has been submitted for an accepted swap: the other
\* direction under the same hashed secret.
C15_Witness ==
    /\ form.isAcceptingSwap
    /\ form.swapResult # "none"
    /\ activeSwaps[form.swapResult].type = form.swapDirection
    /\ activeSwaps[form.swapResult].hashedSecret = form.acceptedSwap.hashedSecret
    /\ activeSwaps[form.swapResult].timelock >= form.acceptedSwap.timelock

\* C16: the decision whether a counter-leg may be locked is "no" whenever
\* its timelock tB is not earlier than the timelock tA of the leg being
\* accepted.  The repository has no isAtomicitySafe; the decision it takes
\* is the one of handleSubmit on a form that is filled in.
C16_UnsafeRefused ==
    (form.isAcceptingSwap /\ timelockTimestamp(form) >= form.acceptedSwap.timelock)
        => handleSubmitAlert(form, TRUE) # ""

\* A form that accepts a swap and would lock the counter-leg no earlier than
\* the accepted leg.
C16_Witness ==
    /\ form.isAcceptingSwap
    /\ form.acceptedSwap.timelock > now
    /\ timelockTimestamp(form) >= form.acceptedSwap.timelock
    /\ handleSubmitAlert(form, TRUE) = ""

\* The 32 bytes a hash string names, with or without the "0x" prefix.
hashBytes(h) == Bytes(32, h.bytes)

\* C17: the hash pushed in the redeem script of a registered btc-to-eth swap
\* is the 32 bytes its entry stores, and the 32 bytes the escrow contract
\* holds for any swap initiated under the same hash string, whether or not
\* the string carries the "0x" prefix.
C17_SameHashBothLegs ==
    \A id \in SwapIds :
        activeSwaps[id].type = "btc-to-eth"
            => /\ activeSwaps[id].btcScript.hash = hashBytes(activeSwaps[id].hashedSecret)
               /\ \A c \in SwapIds :
                     (swaps[c].exists /\ activeSwaps[c].hashedSecret = activeSwaps[id].hashedSecret)
                        => activeSwaps[id].btcScript.hash = Bytes(32, swaps[c].hashedSecret)

\* A btc-to-eth swap registered under the prefixed hash of generate-secret,
\* with the counter-leg locked in the contract under the same string.
C17_Witness ==
    \E id \in SwapIds, c \in SwapIds :
        /\ activeSwaps[id].type = "btc-to-eth"
        /\ activeSwaps[id].hashedSecret.prefixed
        /\ swaps[c].exists
        /\ activeSwaps[c].hashedSecret = activeSwaps[id].hashedSecret
        /\ activeSwaps[id].btcScript.hash = EmptyBuffer

\* The request being answered is a registration of a leg under id.
Registering(id) ==
    /\ response'.op \in {"eth-to-btc/initiate", "btc-to-eth/initiate"}
    /\ response'.swapId = id

\* C18: at most two legs are registered per swap id: once two registrations
\* of an id were accepted, a further one is refused (TooManyLegs, or the
\* error of a request that lacks a parameter) and leaves the entry of the id
\* as it was.
C18_AtMostTwoLegs ==
    [][\A id \in RegistryIds :
          (legs[id] >= 2 /\ Registering(id))
             => /\ response'.code # 200
                /\ activeSwaps'[id] = activeSwaps[id]
                /\ legs'[id] = legs[id]]_vars

\* Three registrations of one swap id were accepted and the entry is the
\* last one's.
C18_Witness ==
    \E id \in RegistryIds :
        /\ legs[id] = 3
        /\ response.code = 200
        /\ response.op = "eth-to-btc/initiate"
        /\ activeSwaps[id].type = "eth-to-btc"

\* The request being answered is a completion of id that was accepted and
\* repeats the claim the entry already records: same secret, same
\* transaction.
SameClaimAgain(id) ==
    /\ response'.op = "complete"
    /\ response'.swapId = id
    /\ response'.code = 200
    /\ activeSwaps[id].status = "completed"
    /\ activeSwaps'[id].secret = activeSwaps[id].secret
    /\ activeSwaps'[id].completionTxHash = activeSwaps[id].completionTxHash

\* C19: completing a swap again with the claim it was completed with leaves
\* its entry, completion time and completion transaction included, as the
\* first completion left it.
C19_CompleteIdempotent ==
    [][\A id \in RegistryIds :
          SameClaimAgain(id) => activeSwaps'[id] = activeSwaps[id]]_vars

\* A swap completed at a time after the one it was registered at, by a
\* request for the transaction the registry answered last.
C19_Witness ==
    \E id \in RegistryIds :
        /\ activeSwaps[id].status = "completed"
        /\ activeSwaps[id].secret = Hex(FALSE, 1)
        /\ activeSwaps[id].completedAt = MaxTime
        /\ response.op = "complete"
        /\ response.code = 200

\* A leg that nobody claimed and whose timelock the clock has reached.
Expired(swap) == swap.status = "initiated" /\ now >= swap.timelock

\* The request being answered is op for id.
Answering(op, id) == response'.op = op /\ response'.swapId = id

\* C20: once the clock reaches the timelock of a leg that was not claimed,
\* a status query on it reports the expiry instead of the status of a swap
\* still waiting for its claim, and no claim on it is accepted.
C20_ExpiredReported ==
    [][/\ \A id \in RegistryIds :
             Expired(activeSwaps[id])
                => /\ (Answering("status", id) /\ response'.code = 200)
                         => response'.data # "initiated"
                   /\ (Answering("withdraw", id) \/ Answering("complete", id))
                         => response'.code # 200
       /\ \A id \in FusionIds :
             (Expired(fusionSwaps[id]) /\ Answering("getSwapStatus", id))
                => response'.data # "initiated"]_vars

\* A claim on an expired leg was refused with the advice to refund.
C20_Witness ==
    \E id \in RegistryIds :
        /\ Expired(activeSwaps[id])
        /\ response.op = "withdraw"
        /\ response.swapId = id
        /\ response.error = "Swap has expired and can only be refunded"

\* The statuses the registry never leaves by the lifecycle.
Terminal == {"completed", "refunded"}

\* C21: the lifecycle of a registered swap is ordered: no step takes a swap
\* from initiated directly to completed, and a swap that is completed or
\* refunded keeps that status ever after.
C21_LifecycleOrdered ==
    [][\A id \in RegistryIds :
          /\ activeSwaps[id].status \in Terminal
                => activeSwaps'[id].status = activeSwaps[id].status
          /\ ~(/\ activeSwaps[id].status = "initiated"
               /\ activeSwaps'[id].status = "completed")]_vars

\* A swap with one registered leg was completed by a single request.
C21_Witness ==
    \E id \in RegistryIds :
        /\ legs[id] = 1
        /\ activeSwaps[id].status = "completed"
        /\ response.op \in {"complete", "withdraw"}
        /\ response.code = 200

Is32Bytes(h) == h.hex /\ ~h.prefixed /\ h.len = 32

\* C23: extracting the secret from the claim transaction built with a
\* 32-byte secret returns that secret.
C23_SecretRoundTrip ==
    (/\ utxo.op = "extractSecretFromTx"
     /\ utxo.chain = "bitcoin"
     /\ Is32Bytes(utxo.args.secret))
        => /\ utxo.returned = "string"
           /\ utxo.secret = utxo.args.secret

\* The secret of a claim transaction was extracted.
C23_Witness ==
    /\ utxo.op = "extractSecretFromTx"
    /\ utxo.chain = "bitcoin"
    /\ utxo.tx = createWithdrawalTransaction(EscrowScript, HexN(FALSE, 32, 2), "recipientAddress", 3000, 1)
    /\ utxo.returned = "string"
    /\ utxo.secret = HexN(FALSE, 32, 2)

\* The unlocking script of a claim: a signature, a push of 32 bytes and the
\* selector of the claim branch; for a Dogecoin object, a withdrawal that
\* carries a secret of 32 bytes.
ClaimShape(tx) ==
    IF tx.type = "transaction"
    THEN /\ tx.ins # <<>>
         /\ Len(tx.ins[1].script) >= 3
         /\ tx.ins[1].script[1].op = "push"
         /\ tx.ins[1].script[2].op = "push"
         /\ tx.ins[1].script[2].data.len = 32
         /\ tx.ins[1].script[3] = OP_TRUE
    ELSE tx.type = "withdrawal" /\ Is32Bytes(tx.secret)

\* C24: extractSecretFromTx returns a value exactly for a transaction whose
\* unlocking script has the claim shape with a secret of 32 bytes; for any
\* other transaction it throws that no secret was found and returns nothing,
\* null included.
C24_ExtractIffClaimShape ==
    utxo.op = "extractSecretFromTx" =>
        /\ utxo.returned = "string" <=> ClaimShape(utxo.tx)
        /\ ~ClaimShape(utxo.tx) => utxo.returned = "thrown"

\* The Dogecoin extraction answered null for a refund.
C24_Witness ==
    /\ utxo.op = "extractSecretFromTx"
    /\ utxo.chain = "dogecoin"
    /\ utxo.tx.type = "refund"
    /\ utxo.returned = "null"

\* The bytes a string of hex digits names, with or without the "0x" prefix.
namedBytes(h) == Bytes(h.len, h.bytes)

\* The element sequence of the redeem script for hash h, timelock t, the
\* claimant's key pk1 and the refunder's key pk2; the timelock chunk is a
\* push or a number opcode of value t.
RedeemLayout(chunks, h, t, pk1, pk2) ==
    /\ Len(chunks) = 13
    /\ chunks[1] = opcode("OP_IF")
    /\ chunks[2] = opcode("OP_SHA256")
    /\ chunks[3] = push(namedBytes(h))
    /\ chunks[4] = opcode("OP_EQUALVERIFY")
    /\ chunks[5] = push(namedBytes(pk1))
    /\ chunks[6] = opcode("OP_CHECKSIG")
    /\ chunks[7] = opcode("OP_ELSE")
    /\ chunks[8].op \in {"push", "OP_N"}
    /\ chunks[8].data.value = t
    /\ chunks[9] = opcode("OP_CHECKLOCKTIMEVERIFY")
    /\ chunks[10] = opcode("OP_DROP")
    /\ chunks[11] = push(namedBytes(pk2))
    /\ chunks[12] = opcode("OP_CHECKSIG")
    /\ chunks[13] = opcode("OP_ENDIF")

\* A call that built a redeem script from a hash given as hex digits.
BuiltScript ==
    /\ utxo.op \in {"createAtomicSwapScript", "createHTLCScript"}
    /\ utxo.returned = "script"
    /\ utxo.args.hashedSecret.hex

\* C25: for all inputs the redeem script decompiles to IF SHA256 h
\* EQUALVERIFY pk1 CHECKSIG ELSE t CHECKLOCKTIMEVERIFY DROP pk2 CHECKSIG
\* ENDIF with h, pk1 and pk2 verbatim, and the Bitcoin and the Dogecoin
\* builder give the same layout for the same inputs.
C25_RedeemScriptLayout ==
    BuiltScript =>
        LET a == utxo.args
            b == decompile(atomicSwapScript(a.hashedSecret, a.timelock, a.recipientPubKey, a.senderPubKey))
            d == decompile(createHTLCScript(a.hashedSecret, a.senderPubKey, a.recipientPubKey, a.timelock))
        IN /\ RedeemLayout(decompile(utxo.script), a.hashedSecret, a.timelock, a.recipientPubKey, a.senderPubKey)
           /\ \A i \in 1..13 : i # 8 => b[i] = d[i]
           /\ b[8].data.value = d[8].data.value

\* A redeem script built from a "0x" prefixed hash holds OP_0 where the hash
\* belongs.
C25_Witness ==
    /\ BuiltScript
    /\ utxo.args.hashedSecret = HexN(TRUE, 32, sha256(1))
    /\ decompile(utxo.script)[3] = OP_N(0)

\* A hash string that decodes to 32 bytes and a public key string that
\* decodes to a compressed or an uncompressed key.
ValidHash(h) == fromHex(h).len = 32
ValidKey(k) == fromHex(k).len \in {33, 65}

\* C26: the script builders fail when hashedSecret does not decode to
\* exactly 32 bytes or a public key does not decode to a valid length, and
\* return no script then.
C26_InvalidInputsRejected ==
    (/\ utxo.op \in {"createAtomicSwapScript", "createHTLCScript"}
     /\ \/ ~ValidHash(utxo.args.hashedSecret)
        \/ ~ValidKey(utxo.args.recipientPubKey)
        \/ ~ValidKey(utxo.args.senderPubKey))
        => /\ utxo.returned = "thrown"
           /\ utxo.script = <<>>

\* A script was returned for a hash of 16 bytes and a key of 20 bytes.
C26_Witness ==
    /\ utxo.op = "createAtomicSwapScript"
    /\ utxo.args.hashedSecret = HexN(FALSE, 16, sha256(1))
    /\ utxo.args.recipientPubKey = HexN(FALSE, 20, 1)
    /\ utxo.returned = "script"
    /\ Len(utxo.script) = 13

\* The sum of the values of a transaction's inputs or outputs.
RECURSIVE totalValue(_)
totalValue(coins) ==
    IF coins = <<>> THEN 0 ELSE Head(coins).value + totalValue(Tail(coins))

\* A call of createFundingTransaction has answered.
Funded == utxo.op = "createFundingTransaction"

\* C27: createFundingTransaction fails when the inputs sum to less than
\* amount plus the estimated fee, and never returns a transaction whose
\* outputs exceed its inputs.
C27_InsufficientFundsRejected ==
    Funded =>
        /\ totalInput(utxo.args.utxos) < utxo.args.amount + fundingFee(utxo.args.utxos, utxo.args.feeRate)
              => utxo.returned = "thrown"
        /\ utxo.returned = "psbt" => totalValue(utxo.tx.outs) <= totalValue(utxo.tx.ins)

\* A funding transaction of 20000 was returned for one input of 1000.
C27_Witness ==
    /\ Funded
    /\ utxo.returned = "psbt"
    /\ utxo.args.utxos = <<1000>>
    /\ utxo.tx.outs = <<[address |-> "p2shAddress", value |-> 20000]>>

\* C28: the funding transaction has exactly one output of value amount to
\* the escrow address, and besides it a change output of value totalInput -
\* amount - fee, with fee = (148 * inputs + 78) * feeRate, exactly when that
\* change exceeds 546.
C28_FundingOutputs ==
    (Funded /\ utxo.returned = "psbt") =>
        LET a == utxo.args
            fee == (148 * Len(a.utxos) + 78) * a.feeRate
            change == totalInput(a.utxos) - a.amount - fee
            escrow == [address |-> "p2shAddress", value |-> a.amount]
        IN /\ utxo.tx.outs[1] = escrow
           /\ change > 546 => utxo.tx.outs = <<escrow, [address |-> "changeAddress", value |-> change]>>
           /\ ~(change > 546) => utxo.tx.outs = <<escrow>>

\* A funding transaction of 3000 from one input of 5000 at 1 sat/byte pays
\* the change of 1774 back.
C28_Witness ==
    /\ Funded
    /\ utxo.args.utxos = <<5000>>
    /\ utxo.args.amount = 3000
    /\ utxo.args.feeRate = 1
    /\ Len(utxo.tx.outs) = 2
    /\ utxo.tx.outs[2].value = 1774

\* The push of the redeem script that ends a pay-to-script-hash unlocking
\* script.
RedeemPush == push(Bytes(byteLength(EscrowScript), 0))

\* C29: the claim transaction unlocks with signature, secret and the true
\* selector; the refund transaction unlocks with signature and the false
\* selector, has its locktime set to the timelock and a sequence number that
\* is not final, and holds no push of 32 bytes, so it carries no secret.
C29_BranchSelection ==
    /\ (utxo.op = "createWithdrawalTransaction" /\ utxo.chain = "bitcoin") =>
          LET script == decompile(utxo.tx.ins[1].script) IN
          /\ Len(utxo.tx.ins) = 1
          /\ Len(script) = 4
          /\ script[1] = push(signature(utxo.args.privKey))
          /\ Is32Bytes(utxo.args.secret) => script[2] = push(namedBytes(utxo.args.secret))
          /\ script[3] = OP_TRUE
          /\ script[4] = RedeemPush
    /\ (utxo.op = "createRefundTransaction" /\ utxo.chain = "bitcoin") =>
          LET script == decompile(utxo.tx.ins[1].script) IN
          /\ Len(utxo.tx.ins) = 1
          /\ script = <<push(signature(utxo.args.privKey)), OP_FALSE, RedeemPush>>
          /\ utxo.tx.locktime = utxo.args.timelock
          /\ utxo.tx.ins[1].sequence # SequenceFinal
          /\ \A i \in DOMAIN script : ~(script[i].op = "push" /\ script[i].data.len = 32)

\* A refund transaction for the timelock 1700000000 was built.
C29_Witness ==
    /\ utxo.op = "createRefundTransaction"
    /\ utxo.chain = "bitcoin"
    /\ utxo.returned = "transaction"
    /\ utxo.tx.locktime = 1700000000
    /\ utxo.tx.ins[1].sequence = SequenceTimelock
    /\ utxo.tx.ins[1].script[2] = OP_FALSE

\* C30: the hash of a generated pair is the 32-byte SHA-256 of its 32-byte
\* secret, and verifySecret against that hash, given bare or with the "0x"
\* prefix, is true for the secret of the pair and false for any other.
C30_VerifySecretExact ==
    (utxo.op = "verifySecret" /\ Is32Bytes(utxo.args.secret)) =>
        /\ Is32Bytes(utxo.secret)
        /\ utxo.args.hashedSecret.len = 32
        /\ utxo.args.hashedSecret.bytes = sha256(utxo.secret.bytes)
        /\ utxo.verified <=> utxo.args.secret = utxo.secret

\* The secret of the pair was refused against its own hash with the prefix.
C30_Witness ==
    /\ utxo.op = "verifySecret"
    /\ utxo.args.secret = utxo.secret
    /\ utxo.args.hashedSecret = HexN(TRUE, 32, sha256(utxo.secret.bytes))
    /\ ~utxo.verified

\* C31: the two libraries agree on the hashlock: for every secret and hash
\* verifySecret of Bitcoin and of Dogecoin return the same result, and the
\* pair generateSecret of either library returned verifies under the other.
C31_HandlersInterchangeable ==
    utxo.op = "verifySecret" =>
        /\ utxo.verified = verifySecret(utxo.args.secret, utxo.args.hashedSecret)
        /\ utxo.verified = dogeVerifySecret(utxo.args.secret, utxo.args.hashedSecret)
        /\ (/\ utxo.args.secret = utxo.secret
            /\ utxo.args.hashedSecret = HexN(FALSE, 32, sha256(utxo.secret.bytes))) => utxo.verified

\* A pair generated by the Dogecoin library verified under the Bitcoin one.
C31_Witness ==
    /\ utxo.op = "verifySecret"
    /\ utxo.generator = "dogecoin"
    /\ utxo.chain = "bitcoin"
    /\ utxo.args.secret = utxo.secret
    /\ ~utxo.args.hashedSecret.prefixed
    /\ utxo.verified

\* C32: for every open record exactly one settlement is enabled at any
\* time: withdraw by the participant with the secret of the hash passes every
\* guard exactly when now < timelock, and refund by the initiator passes
\* every guard exactly when now >= timelock.
C32_OneSettlementEnabled ==
    \A id \in SwapIds :
        Open(id) =>
            /\ \A s \in Secrets :
                  sha256(s) = swaps[id].hashedSecret =>
                      (withdrawRevert(swaps[id].participant, id, s) = "" <=> now < swaps[id].timelock)
            /\ refundRevert(swaps[id].initiator, id) = "" <=> now >= swaps[id].timelock
            /\ \A s \in Secrets :
                  sha256(s) = swaps[id].hashedSecret =>
                      (isWithdrawable(id, s) <=> ~isRefundable(id))

\* An open record at its timelock: the refund is enabled, the claim is not.
C32_Witness ==
    \E id \in SwapIds :
        /\ Open(id)
        /\ now = swaps[id].timelock
        /\ swaps[id].hashedSecret = sha256(1)
        /\ refundRevert(swaps[id].initiator, id) = ""
        /\ withdrawRevert(swaps[id].participant, id, 1) = "Timelock expired"

C34_WithdrawXorRefund ==
    \A id \in SwapIds : ~(utxoLeg[id].withdrawn /\ utxoLeg[id].refunded)

\* A refund was answered with success for a registration that a withdraw
\* had completed before, under the timelock it was registered with.
C34_Witness ==
    \E id \in SwapIds :
        /\ utxoLeg[id].withdrawn
        /\ response = ReplyFor("refund", 200, "", id, "")
        /\ activeSwaps[id].status = "refunded"
        /\ activeSwaps[id].withdrawnSecret = NoSwap.withdrawnSecret

\* C35: a terminal status of the registry is irreversible: no request takes
\* a swap whose status is completed or refunded to any other status.
C35_TerminalIrreversible ==
    [][\A id \in SwapIds :
          activeSwaps[id].status \in Terminal
              => activeSwaps'[id].status = activeSwaps[id].status]_vars

\* A refunded swap that POST /complete marked completed afterwards.
C35_Witness ==
    \E id \in SwapIds :
        /\ activeSwaps[id].status = "completed"
        /\ activeSwaps[id].refundedAt # NoSwap.refundedAt
        /\ activeSwaps[id].completedAt >= activeSwaps[id].refundedAt
        /\ response = ReplyFor("complete", 200, "", id, "")

\* The list handler resumes after awaiting getSwap for the entry of id.
Resumes(id) ==
    /\ listing.phase = "awaiting"
    /\ listing.id = id
    /\ listing' # listing

\* C36: a change committed by POST /complete, /withdraw or /refund while
\* GET /api/swaps awaits the contract query is not lost when the list
\* handler resumes: the status, secrets and timestamps that the request set
\* since the handler took its copy are still stored after the resumption.
C36_NoLostUpdate ==
    [][\A id \in SwapIds :
          Resumes(id) =>
              LET stored == activeSwaps[id]
                  copy == listing.updatedSwap
                  after == activeSwaps'[id]
              IN /\ (stored.status \in Terminal /\ stored.status # copy.status)
                        => after.status = stored.status
                 /\ (stored.secret # NoSwap.secret /\ stored.secret # copy.secret)
                        => after.secret = stored.secret
                 /\ (stored.withdrawnSecret # NoSwap.withdrawnSecret /\ stored.withdrawnSecret # copy.withdrawnSecret)
                        => after.withdrawnSecret = stored.withdrawnSecret
                 /\ (stored.completedAt # NoSwap.completedAt /\ stored.completedAt # copy.completedAt)
                        => after.completedAt = stored.completedAt
                 /\ (stored.refundedAt # NoSwap.refundedAt /\ stored.refundedAt # copy.refundedAt)
                        => after.refundedAt = stored.refundedAt]_vars

\* The list was answered and the entry stored is the copy taken before a
\* withdrawal that was answered with success.
C36_Witness ==
    \E id \in SwapIds :
        /\ listing.phase = "done"
        /\ listing.swaps[id].answered
        /\ utxoLeg[id].withdrawn
        /\ ~utxoLeg[id].refunded
        /\ activeSwaps[id].status = "funded"
        /\ activeSwaps[id].completedAt = NoSwap.completedAt

\* The secrets a client submits: the preimage and another secret, each with
\* and without the 0x prefix, and a string that is not hex.
SubmittedSecrets == {Hex(FALSE, 1), Hex(TRUE, 1), Hex(FALSE, 2), Hex(TRUE, 2), Malformed}
\* What each endpoint decides about the secret alone.
completeAcceptsSecret(swapId, secret) ==
    postCompleteError(swapId, secret) # "Invalid secret"
withdrawAcceptsSecret(swapId, secret) ==
    postWithdrawError(swapId, secret) \notin
        {"Invalid secret format", "Invalid secret. Does not match hashed secret."}

\* C37: POST /complete and POST /withdraw decide the validity of a secret
\* identically: for every stored hashedSecret and every submitted secret,
\* both accept the secret as matching or both reject it.
C37_SameSecretDecision ==
    \A id \in SwapIds :
        activeSwaps[id].type \in {"btc-to-eth", "doge-to-eth"} =>
            \A secret \in SubmittedSecrets :
                completeAcceptsSecret(id, secret) <=> withdrawAcceptsSecret(id, secret)

\* POST /withdraw accepted the preimage for a swap for which POST /complete
\* rejects it as invalid, with the prefix and without.
C37_Witness ==
    \E id \in SwapIds :
        /\ response = ReplyFor("withdraw", 200, "", id, "")
        /\ activeSwaps[id].withdrawnSecret = Hex(TRUE, 1)
        /\ ~completeAcceptsSecret(id, Hex(TRUE, 1))
        /\ ~completeAcceptsSecret(id, Hex(FALSE, 1))

\* The answers of the four initiate endpoints.
InitiateOps == {"eth-to-btc/initiate", "btc-to-eth/initiate", "eth-to-doge/initiate", "doge-to-eth/initiate"}

\* C38: every initiate endpoint rejects a request that lacks a required
\* parameter before any state change, and after a rejected or failed
\* initiate the registry holds exactly the entries it held before.
C38_IncompleteRejected ==
    [][/\ \A swapId \in InitiateIds, hashedSecret \in InitiateHashes, timelock \in InitiateTimelocks :
             (/\ hashedSecret = Undefined \/ timelock = 0
              /\ \/ postEthToBtcInitiate(swapId, hashedSecret, timelock, "address")
                 \/ postBtcToEthInitiate(swapId, hashedSecret, timelock, "alice", "bob")
                 \/ postEthToDogeInitiate(swapId, hashedSecret, timelock, "address")
                 \/ postDogeToEthInitiate(swapId, hashedSecret, timelock, publicKey(1), publicKey(2)))
                 => /\ response'.code >= 400
                    /\ activeSwaps' = activeSwaps
       /\ (response'.op \in InitiateOps /\ response'.code >= 400 /\ response' # response)
             => activeSwaps' = activeSwaps]_vars

\* A btc-to-eth request without timelock was answered with success and its
\* entry stored.
C38_Witness ==
    \E id \in InitiateIds :
        /\ response = ReplyFor("btc-to-eth/initiate", 200, "", id, "")
        /\ activeSwaps[id].type = "btc-to-eth"
        /\ activeSwaps[id].timelock = 0
        /\ activeSwaps[id].status = "initiated"

\* C39: POST /api/swap/doge-to-eth/initiate with a complete, valid request
\* builds the Dogecoin HTLC script and its escrow address and registers the
\* swap in status initiated together with dogeSwapAddress and the script.
C39_DogeSwapRegistered ==
    [][\A swapId \in InitiateIds :
          LET hashedSecret == Hex(TRUE, sha256(1))
              script == createHTLCScript(hashedSecret, publicKey(1), publicKey(2), MaxTime)
          IN postDogeToEthInitiate(swapId, hashedSecret, MaxTime, publicKey(1), publicKey(2))
                 => /\ response'.code = 200
                    /\ activeSwaps'[swapId].type = "doge-to-eth"
                    /\ activeSwaps'[swapId].status = "initiated"
                    /\ activeSwaps'[swapId].dogeScript = script
                    /\ activeSwaps'[swapId].dogeSwapAddress = generateP2SHAddress(script)]_vars

\* A doge-to-eth request was answered with an error and nothing is
\* registered under its id.
C39_Witness ==
    \E id \in InitiateIds :
        /\ response.op = "doge-to-eth/initiate"
        /\ response.swapId = id
        /\ response.code = 500
        /\ activeSwaps[id] = NoSwap

\* C40: completeCrossChainSwap marks a swap completed only in a call that
\* got past the extraction and verification of the secret and whose order
\* fill returned; a call that throws (unknown id, failed extraction,
\* non-matching secret, failed fill) leaves every swap as it was and hands
\* the error to the caller.
C40_CompletedOnlyAfterFill ==
    [][\A id \in FusionIds, crossChainTxId \in TxHashes, fillReturns \in BOOLEAN :
          /\ (fusionSwaps'[id].status = "completed" /\ fusionSwaps[id].status # "completed")
                => /\ completeCrossChainSwapError(id, crossChainTxId) = ""
                   /\ response' = ReplyFor("completeCrossChainSwap", 200, "", id, "completed")
          /\ (/\ completeCrossChainSwap(id, crossChainTxId, fillReturns)
              /\ completeCrossChainSwapError(id, crossChainTxId) # "" \/ ~fillReturns)
                => /\ fusionSwaps' = fusionSwaps
                   /\ response'.code = 500
                   /\ response'.error # ""]_vars

\* The completion of a known swap threw at the extraction of the secret and
\* the swap is as createCrossChainIntent stored it.
C40_Witness ==
    \E id \in FusionIds :
        /\ response = ReplyFor("completeCrossChainSwap", 500, "Cross-chain secret extraction not implemented", id, "")
        /\ fusionSwaps[id].status = "initiated"
        /\ fusionSwaps[id].completedAt = NoFusionSwap.completedAt
====
